---- MODULE Spec2Model ----
(***************************************************************************)
(* A model of the WB financial-analytics tool: the metrics calculator      *)
(* (analyzer/calculator.py over models/product.py) and the API-vs-CSV      *)
(* reconciliation (compare_api_vs_csv.py).                                 *)
(*                                                                         *)
(* Python floats are modelled bit-exactly (IEEE 754 binary64, round to     *)
(* nearest even) so that rounding is part of what is checked.  Python ints *)
(* are TLA+ integers; an int meeting a float is converted exactly.         *)
(***************************************************************************)
EXTENDS Integers, Sequences, FiniteSets, TLC

VARIABLES
    product,    \* the Product a Calculator method is applied to
    call,       \* the Calculator method called ("none" before the call)
    args,       \* the scalar arguments of that call
    ret,        \* its outcome: [exc, val]
    api_data,   \* the dict given to calculate_metrics_from_api
    df,         \* the DataFrame given to calculate_metrics_from_csv
    history,    \* the calls a caller made on the same objects: [call, input, ret]
    products,   \* the list of Products given to process_products
    api_metrics,    \* the first dict given to compare_metrics
    csv_metrics,    \* the second dict given to compare_metrics
    tasks,      \* the coroutines fetch_multiple_reports hands to asyncio.gather
    heap        \* the ManualInputData objects, by identity

\* The variables only the callers of the later sections write.
callerVars == <<history, products, api_metrics, csv_metrics>>

\* The variables only the report loader and the object store write.
ioVars == <<tasks, heap>>

vars == <<product, call, args, ret, api_data, df, history, products, api_metrics, csv_metrics,
          tasks, heap>>

\* ---------------------------------------------------------------------
\* Python float arithmetic (IEEE 754 binary64, round-to-nearest-even).
\* A float is a record [sg, m, e] of value sg * m * 2^e, m a natural of at
\* most Precision bits held as little-endian limbs of LimbBits bits, in
\* canonical form (m odd, or zero). Magnitudes of the model stay far from
\* overflow and underflow; -0.0 equals 0.0 under == and is held as Zero.
\* ---------------------------------------------------------------------
LimbBits == 15
Base == 32768
Precision == 53

RECURSIVE Pow2(_)
Pow2(n) == IF n = 0 THEN 1 ELSE 2 * Pow2(n - 1)

Max2(a, b) == IF a >= b THEN a ELSE b
Min2(a, b) == IF a <= b THEN a ELSE b
AbsInt(n) == IF n < 0 THEN -n ELSE n

BLimb(a, i) == IF i >= 1 /\ i <= Len(a) THEN a[i] ELSE 0

RECURSIVE BTrim(_)
BTrim(a) ==
    IF Len(a) = 0 THEN <<>>
    ELSE IF a[Len(a)] # 0 THEN a
    ELSE BTrim(SubSeq(a, 1, Len(a) - 1))

RECURSIVE BFromNat(_)
BFromNat(n) == IF n = 0 THEN <<>> ELSE <<n % Base>> \o BFromNat(n \div Base)

RECURSIVE SmallBitLen(_)
SmallBitLen(n) == IF n = 0 THEN 0 ELSE 1 + SmallBitLen(n \div 2)

RECURSIVE SmallTrailingZeros(_)
SmallTrailingZeros(n) == IF n % 2 = 1 THEN 0 ELSE 1 + SmallTrailingZeros(n \div 2)

BitLen(a) == IF a = <<>> THEN 0 ELSE (Len(a) - 1) * LimbBits + SmallBitLen(a[Len(a)])

BBit(a, i) == (BLimb(a, (i \div LimbBits) + 1) \div Pow2(i % LimbBits)) % 2

BShl(a, k) ==
    LET q == k \div LimbBits
        r == k % LimbBits
        p == Pow2(r)
        hi == Pow2(LimbBits - r)
    IN  IF a = <<>> THEN <<>>
        ELSE BTrim([j \in 1..(Len(a) + q + 1) |->
                      IF j <= q THEN 0
                      ELSE ((BLimb(a, j - q) * p) % Base) + (BLimb(a, j - q - 1) \div hi)])

BShr(a, k) ==
    LET q == k \div LimbBits
        r == k % LimbBits
        p == Pow2(r)
        hi == Pow2(LimbBits - r)
    IN  IF Len(a) <= q THEN <<>>
        ELSE BTrim([j \in 1..(Len(a) - q) |->
                      (a[j + q] \div p) + ((BLimb(a, j + q + 1) % p) * hi)])

BLowZero(a, k) ==
    /\ \A j \in 1..(k \div LimbBits) : BLimb(a, j) = 0
    /\ BLimb(a, (k \div LimbBits) + 1) % Pow2(k % LimbBits) = 0

RECURSIVE BLowestLimb(_, _)
BLowestLimb(a, j) == IF a[j] # 0 THEN j ELSE BLowestLimb(a, j + 1)

BTrailingZeros(a) ==
    LET j == BLowestLimb(a, 1)
    IN  (j - 1) * LimbBits + SmallTrailingZeros(a[j])

RECURSIVE BCmpFrom(_, _, _)
BCmpFrom(a, b, i) ==
    IF i = 0 THEN 0
    ELSE IF a[i] < b[i] THEN -1
    ELSE IF a[i] > b[i] THEN 1
    ELSE BCmpFrom(a, b, i - 1)

BCmp(a, b) ==
    IF Len(a) # Len(b) THEN (IF Len(a) < Len(b) THEN -1 ELSE 1)
    ELSE BCmpFrom(a, b, Len(a))

RECURSIVE BAddFrom(_, _, _, _)
BAddFrom(a, b, i, c) ==
    IF i > Len(a) /\ i > Len(b)
    THEN (IF c = 0 THEN <<>> ELSE <<c>>)
    ELSE LET s == BLimb(a, i) + BLimb(b, i) + c
         IN  <<s % Base>> \o BAddFrom(a, b, i + 1, s \div Base)

BAdd(a, b) == BAddFrom(a, b, 1, 0)

RECURSIVE BSubFrom(_, _, _, _)
BSubFrom(a, b, i, c) ==
    IF i > Len(a) THEN <<>>
    ELSE LET s == a[i] - BLimb(b, i) - c
         IN  IF s < 0 THEN <<s + Base>> \o BSubFrom(a, b, i + 1, 1)
             ELSE <<s>> \o BSubFrom(a, b, i + 1, 0)

BSub(a, b) == BTrim(BSubFrom(a, b, 1, 0))

RECURSIVE BMulLimbFrom(_, _, _, _)
BMulLimbFrom(a, d, i, c) ==
    IF i > Len(a) THEN (IF c = 0 THEN <<>> ELSE <<c>>)
    ELSE LET s == a[i] * d + c
         IN  <<s % Base>> \o BMulLimbFrom(a, d, i + 1, s \div Base)

RECURSIVE BMul(_, _)
BMul(a, b) ==
    IF a = <<>> \/ b = <<>> THEN <<>>
    ELSE BTrim(BAdd(BMulLimbFrom(a, b[1], 1, 0), <<0>> \o BMul(a, Tail(b))))

\* The largest q with q * d <= r, tried downwards from the estimate qh.
RECURSIVE BQuotDigit(_, _, _)
BQuotDigit(r, d, qh) ==
    IF BCmp(BMulLimbFrom(d, qh, 1, 0), r) <= 0 THEN qh ELSE BQuotDigit(r, d, qh - 1)

\* Schoolbook long division by the normalised divisor d (top limb at least
\* Base / 2), one quotient limb per step from limb i of n downwards; the
\* digit estimated from the two leading limbs is at most two too large.
RECURSIVE BDivFrom(_, _, _, _, _)
BDivFrom(n, d, i, q, r) ==
    IF i = 0 THEN [q |-> BTrim(q), r |-> r]
    ELSE LET r1 == BTrim(<<n[i]>> \o r)
             L == Len(d)
             qh == Min2(Base - 1, (BLimb(r1, L + 1) * Base + BLimb(r1, L)) \div d[L])
             qd == IF BCmp(r1, d) < 0 THEN 0 ELSE BQuotDigit(r1, d, qh)
         IN  BDivFrom(n, d, i - 1, <<qd>> \o q,
                      IF qd = 0 THEN r1 ELSE BSub(r1, BTrim(BMulLimbFrom(d, qd, 1, 0))))

\* Quotient and (scaled) remainder of n by d # 0.
BDivMod(n, d) ==
    LET sh == LimbBits - SmallBitLen(d[Len(d)])
        nn == BShl(n, sh)
    IN  BDivFrom(nn, BShl(d, sh), Len(nn), <<>>, <<>>)

Zero == [sg |-> 1, m |-> <<>>, e |-> 0]

\* The canonical record of the exact value sg * m * 2^e.
Canon(sg, m, e) ==
    IF m = <<>> THEN Zero
    ELSE LET t == BTrailingZeros(m)
         IN  [sg |-> sg, m |-> BShr(m, t), e |-> e + t]

\* Exact arithmetic on canonical records, with no limit on the bits of m.
ExNeg(x) == IF x = Zero THEN Zero ELSE [x EXCEPT !.sg = -x.sg]

ExAbs(x) == [x EXCEPT !.sg = 1]

ExAdd(x, y) ==
    LET e == Min2(x.e, y.e)
        mx == BShl(x.m, x.e - e)
        my == BShl(y.m, y.e - e)
        c == BCmp(mx, my)
    IN  IF x.sg = y.sg THEN Canon(x.sg, BAdd(mx, my), e)
        ELSE IF c = 0 THEN Zero
        ELSE IF c > 0 THEN Canon(x.sg, BSub(mx, my), e)
        ELSE Canon(y.sg, BSub(my, mx), e)

ExSub(x, y) == ExAdd(x, ExNeg(y))

ExMul(x, y) == Canon(x.sg * y.sg, BMul(x.m, y.m), x.e + y.e)

\* x * 2^k
ExScale(x, k) == IF x = Zero THEN Zero ELSE [x EXCEPT !.e = x.e + k]

\* Sign (-1, 0, 1) of x - y.
ExCmp(x, y) ==
    LET d == ExSub(x, y)
    IN  IF d = Zero THEN 0 ELSE d.sg

\* Round the exact value sg * m * 2^e to the nearest float, ties to even.
Round(sg, m, e) ==
    LET k == BitLen(m) - Precision
    IN  IF k <= 0 THEN Canon(sg, m, e)
        ELSE LET q == BShr(m, k)
                 up == /\ BBit(m, k - 1) = 1
                       /\ (~BLowZero(m, k - 1) \/ BBit(q, 0) = 1)
             IN  Canon(sg, IF up THEN BAdd(q, <<1>>) ELSE q, e + k)

RoundEx(x) == Round(x.sg, x.m, x.e)

\* float(n) for an int n of magnitude below 2^31 (exact).
FloatOfInt(n) == Canon(IF n < 0 THEN -1 ELSE 1, BFromNat(AbsInt(n)), 0)

FloatNeg(x) == ExNeg(x)

FloatAbs(x) == ExAbs(x)

FloatAdd(x, y) == RoundEx(ExAdd(x, y))

FloatSub(x, y) == RoundEx(ExSub(x, y))

FloatMul(x, y) == RoundEx(ExMul(x, y))

\* x / y for y # 0: the quotient to at least Precision + 2 bits, with a
\* sticky last bit for a nonzero remainder, rounded once.
FloatDiv(x, y) ==
    IF x = Zero THEN Zero
    ELSE LET s == Max2(0, BitLen(y.m) + Precision + 2 - BitLen(x.m))
             qr == BDivMod(BShl(x.m, s), y.m)
             m2 == BAdd(BShl(qr.q, 1), IF qr.r = <<>> THEN <<>> ELSE <<1>>)
         IN  Round(x.sg * y.sg, m2, x.e - y.e - s - 1)

FloatCmp(x, y) == ExCmp(x, y)

\* The float a decimal literal n/d denotes (d a power of ten).
Dec(n, d) == FloatDiv(FloatOfInt(n), FloatOfInt(d))

\* The int value of an integer-valued float of small magnitude.
IsIntegral(x) == x.e >= 0
IntOf(x) == IF x = Zero THEN 0 ELSE x.sg * x.m[1] * Pow2(x.e)

\* ---------------------------------------------------------------------
\* Outcomes of a call: a returned value, or a raised exception.
\* ---------------------------------------------------------------------
Return(v) == [exc |-> "none", val |-> v]

Raise(e) == [exc |-> e, val |-> Zero]

\* Python's x / y on floats.
PyTrueDiv(x, y) == IF y = Zero THEN Raise("ZeroDivisionError") ELSE Return(FloatDiv(x, y))

\* ---------------------------------------------------------------------
\* models/product.py
\* ---------------------------------------------------------------------
ManualInputData ==
    [cost_per_unit |-> Zero, self_purchase_count |-> 0, self_purchase_cost |-> Zero,
     giveaway_count |-> 0, giveaway_cost |-> Zero, marketing_cost |-> Zero]

Product(nm_id) ==
    [nm_id |-> nm_id, product_name |-> "",
     deliveries |-> 0, sales |-> 0, returns |-> 0, refusals |-> 0,
     sales_amount_before_spp |-> Zero, sales_amount_after_spp |-> Zero,
     returns_amount |-> Zero,
     logistics_cost |-> Zero, storage_cost |-> Zero, acceptance_cost |-> Zero,
     penalty_cost |-> Zero, surcharges |-> Zero, commission_with_spp |-> Zero,
     commission_without_spp |-> Zero, drr_cost |-> Zero,
     manual_data |-> ManualInputData]

ProductMetrics(p, cogs, gross_profit, total_expenses, net_profit, profit_margin_percent, roi_percent, avg_check) ==
    [product |-> p, cogs |-> cogs, gross_profit |-> gross_profit,
     total_expenses |-> total_expenses, net_profit |-> net_profit,
     profit_margin_percent |-> profit_margin_percent, roi_percent |-> roi_percent,
     avg_check |-> avg_check]

\* ---------------------------------------------------------------------
\* analyzer/calculator.py
\* ---------------------------------------------------------------------
calculate_cogs_Clamped(p) ==
    LET net_sold == p.sales - p.returns - p.manual_data.self_purchase_count
                    - p.manual_data.giveaway_count
        cogs == FloatMul(FloatOfInt(Max2(0, net_sold)), p.manual_data.cost_per_unit)
    IN  Return(FloatAdd(cogs, p.manual_data.giveaway_cost))

calculate_cogs(p) ==
    LET net_sold == p.sales - p.returns - p.manual_data.self_purchase_count
                    - p.manual_data.giveaway_count
        cogs == FloatMul(FloatOfInt(net_sold), p.manual_data.cost_per_unit)
    IN  Return(FloatAdd(cogs, p.manual_data.giveaway_cost))

calculate_gross_profit_BeforeSpp(p, cogs) == Return(FloatSub(p.sales_amount_before_spp, cogs))

calculate_gross_profit(p, cogs) == Return(FloatSub(p.sales_amount_after_spp, cogs))

calculate_total_expenses_AddSurcharges(p) ==
    Return(FloatAdd(FloatAdd(FloatAdd(FloatAdd(FloatAdd(FloatAdd(FloatAdd(
        p.logistics_cost, p.storage_cost), p.penalty_cost), p.acceptance_cost),
        p.commission_with_spp), p.drr_cost), p.manual_data.marketing_cost),
        p.surcharges))

calculate_total_expenses(p) ==
    Return(FloatSub(FloatAdd(FloatAdd(FloatAdd(FloatAdd(FloatAdd(FloatAdd(
        p.logistics_cost, p.storage_cost), p.penalty_cost), p.acceptance_cost),
        p.commission_with_spp), p.drr_cost), p.manual_data.marketing_cost),
        p.surcharges))

calculate_net_profit(gross_profit, total_expenses) ==
    Return(FloatSub(gross_profit, total_expenses))

calculate_profit_margin_NoPercent(gross_profit, revenue) ==
    IF revenue = Zero THEN Return(Zero) ELSE PyTrueDiv(gross_profit, revenue)

calculate_profit_margin(gross_profit, revenue) ==
    IF revenue = Zero THEN Return(Zero)
    ELSE LET q == PyTrueDiv(gross_profit, revenue)
         IN  IF q.exc # "none" THEN q ELSE Return(FloatMul(q.val, FloatOfInt(100)))

calculate_roi_NoGuard(net_profit, cogs) ==
    LET q == PyTrueDiv(net_profit, cogs)
    IN  IF q.exc # "none" THEN q ELSE Return(FloatMul(q.val, FloatOfInt(100)))

calculate_roi_Swapped(net_profit, cogs) ==
    IF cogs = Zero THEN Return(Zero)
    ELSE LET q == PyTrueDiv(cogs, net_profit)
         IN  IF q.exc # "none" THEN q ELSE Return(FloatMul(q.val, FloatOfInt(100)))

calculate_roi(net_profit, cogs) ==
    IF cogs = Zero THEN Return(Zero)
    ELSE LET q == PyTrueDiv(net_profit, cogs)
         IN  IF q.exc # "none" THEN q ELSE Return(FloatMul(q.val, FloatOfInt(100)))

calculate_avg_check(revenue, sales) ==
    IF sales = 0 THEN Return(Zero) ELSE PyTrueDiv(revenue, FloatOfInt(sales))

\* The first exception among the outcomes rs, or the value built from them.
FirstRaised(rs) == rs[CHOOSE i \in 1..Len(rs) : rs[i].exc # "none" /\ \A j \in 1..(i - 1) : rs[j].exc = "none"]

calculate_all_metrics_RoiOfGross(p) ==
    LET cogs == calculate_cogs(p)
        gross_profit == calculate_gross_profit(p, cogs.val)
        total_expenses == calculate_total_expenses(p)
        net_profit == calculate_net_profit(gross_profit.val, total_expenses.val)
        profit_margin == calculate_profit_margin(gross_profit.val, p.sales_amount_after_spp)
        roi == calculate_roi(gross_profit.val, cogs.val)
        avg_check == calculate_avg_check(p.sales_amount_after_spp, p.sales)
        rs == <<cogs, gross_profit, total_expenses, net_profit, profit_margin, roi, avg_check>>
    IN  IF \E i \in 1..Len(rs) : rs[i].exc # "none" THEN FirstRaised(rs)
        ELSE Return(ProductMetrics(p, cogs.val, gross_profit.val, total_expenses.val,
                                   net_profit.val, profit_margin.val, roi.val, avg_check.val))

calculate_all_metrics(p) ==
    LET cogs == calculate_cogs(p)
        gross_profit == calculate_gross_profit(p, cogs.val)
        total_expenses == calculate_total_expenses(p)
        net_profit == calculate_net_profit(gross_profit.val, total_expenses.val)
        profit_margin == calculate_profit_margin(gross_profit.val, p.sales_amount_after_spp)
        roi == calculate_roi(net_profit.val, cogs.val)
        avg_check == calculate_avg_check(p.sales_amount_after_spp, p.sales)
        rs == <<cogs, gross_profit, total_expenses, net_profit, profit_margin, roi, avg_check>>
    IN  IF \E i \in 1..Len(rs) : rs[i].exc # "none" THEN FirstRaised(rs)
        ELSE Return(ProductMetrics(p, cogs.val, gross_profit.val, total_expenses.val,
                                   net_profit.val, profit_margin.val, roi.val, avg_check.val))

\* Product.net_sales
net_sales(p) == p.sales - p.returns - p.manual_data.self_purchase_count

\* (refusals / deliveries) * 100, 0.0 without deliveries.
percent_refusals(p) ==
    IF p.deliveries = 0 THEN Return(Zero)
    ELSE Return(FloatMul(PyTrueDiv(FloatOfInt(p.refusals), FloatOfInt(p.deliveries)).val,
                         FloatOfInt(100)))

\* (returns / sales) * 100, 0.0 without sales.
percent_returns(p) ==
    IF p.sales = 0 THEN Return(Zero)
    ELSE Return(FloatMul(PyTrueDiv(FloatOfInt(p.returns), FloatOfInt(p.sales)).val,
                         FloatOfInt(100)))

\* round(x, 2): the exact value of x * 100 rounded to the nearest integer n,
\* ties to even, then the float nearest to n / 100. An integral x is returned
\* as it is.
py_round2(x) ==
    IF x.e >= 0 THEN x
    ELSE LET y == ExMul(x, FloatOfInt(100))
             k == -y.e
             q == IF k <= 0 THEN BShl(y.m, -k) ELSE BShr(y.m, k)
             up == /\ k > 0
                   /\ BBit(y.m, k - 1) = 1
                   /\ (~BLowZero(y.m, k - 1) \/ BBit(q, 0) = 1)
             n == IF up THEN BAdd(q, <<1>>) ELSE q
         IN  FloatDiv(Canon(x.sg, n, 0), FloatOfInt(100))

\* The keys of the dict to_dict returns.
SummaryKeys ==
    {"nm_id", "product_name", "sales", "returns", "net_sales", "revenue", "cogs",
     "gross_profit", "total_expenses", "net_profit", "profit_margin_percent",
     "roi_percent", "avg_check"}

\* A to_dict that leaves out a percentage that is zero.
to_dict_OmitsZero(m) ==
    LET d == [nm_id |-> m.product.nm_id,
              product_name |-> m.product.product_name,
              sales |-> m.product.sales,
              returns |-> m.product.returns,
              net_sales |-> net_sales(m.product),
              revenue |-> m.product.sales_amount_after_spp,
              cogs |-> m.cogs,
              gross_profit |-> m.gross_profit,
              total_expenses |-> m.total_expenses,
              net_profit |-> m.net_profit,
              profit_margin_percent |-> py_round2(m.profit_margin_percent),
              roi_percent |-> py_round2(m.roi_percent),
              avg_check |-> py_round2(m.avg_check)]
    IN  [k \in {j \in SummaryKeys : j \notin {"profit_margin_percent", "roi_percent"} \/ d[j] # Zero}
            |-> d[k]]

\* ProductMetrics.to_dict
to_dict(m) ==
    [nm_id |-> m.product.nm_id,
     product_name |-> m.product.product_name,
     sales |-> m.product.sales,
     returns |-> m.product.returns,
     net_sales |-> net_sales(m.product),
     revenue |-> m.product.sales_amount_after_spp,
     cogs |-> m.cogs,
     gross_profit |-> m.gross_profit,
     total_expenses |-> m.total_expenses,
     net_profit |-> m.net_profit,
     profit_margin_percent |-> py_round2(m.profit_margin_percent),
     roi_percent |-> py_round2(m.roi_percent),
     avg_check |-> py_round2(m.avg_check)]

\* The list of the values of the outcomes rs, or the first exception in it.
CollectOutcomes(rs) ==
    IF \E i \in 1..Len(rs) : rs[i].exc # "none" THEN FirstRaised(rs)
    ELSE Return([i \in 1..Len(rs) |-> rs[i].val])

\* cli/main.py: process_products, the list of each product's metrics.
process_products(products_) ==
    IF products_ = <<>> THEN Return(<<>>)
    ELSE CollectOutcomes([i \in 1..Len(products_) |-> calculate_all_metrics(products_[i])])

\* storage/export.py: export_to_csv. The outcome is what the DictWriter is
\* given: the header keys of the first dict and the dicts as rows; a row
\* with a key outside the header makes the writer raise ValueError.
WriteRows(data) ==
    IF \E i \in 1..Len(data) : ~(DOMAIN data[i] \subseteq DOMAIN data[1])
    THEN Raise("ValueError")
    ELSE Return([written |-> TRUE, fieldnames |-> DOMAIN data[1], rows |-> data])

export_to_csv(metrics) ==
    IF metrics = <<>> THEN Return([written |-> FALSE, fieldnames |-> {}, rows |-> <<>>])
    ELSE WriteRows([i \in 1..Len(metrics) |-> to_dict(metrics[i])])

\* ---------------------------------------------------------------------
\* Python values met by the report aggregator. A str is the sequence of its
\* characters; a dict is a function on its keys (an absent key is outside
\* its DOMAIN); float('nan') is PyNaN.
\* ---------------------------------------------------------------------
PyNone == [t |-> "None"]

PyNaN == [t |-> "nan"]

PyInt(n) == [t |-> "int", i |-> n]

PyFloat(x) == [t |-> "float", f |-> x]

PyStr(s) == [t |-> "str", s |-> s]

PyList(items) == [t |-> "list", items |-> items]

EmptyDict == <<>>

IsNumber(v) == v.t \in {"int", "float"}

NumOf(v) == IF v.t = "int" THEN FloatOfInt(v.i) ELSE v.f

\* bool(v), as read by `not v` and `if v`.
Truthy(v) ==
    CASE v.t = "None" -> FALSE
      [] v.t = "nan" -> TRUE
      [] v.t = "int" -> v.i # 0
      [] v.t = "float" -> v.f # Zero
      [] v.t = "str" -> v.s # <<>>
      [] v.t = "list" -> v.items # <<>>

\* a == b on ints, floats, strs and None: numbers compare by value.
PyEq(a, b) ==
    IF IsNumber(a) /\ IsNumber(b) THEN FloatCmp(NumOf(a), NumOf(b)) = 0
    ELSE a.t # "nan" /\ a = b

\* a + b with a number on the left: int + int is an int, a float operand
\* makes a rounded float, nan absorbs, anything else raises TypeError.
PyAdd(a, b) ==
    IF a.t = "int" /\ b.t = "int" THEN Return(PyInt(a.i + b.i))
    ELSE IF IsNumber(a) /\ IsNumber(b) THEN Return(PyFloat(FloatAdd(NumOf(a), NumOf(b))))
    ELSE IF (IsNumber(a) \/ a.t = "nan") /\ (IsNumber(b) \/ b.t = "nan") THEN Return(PyNaN)
    ELSE Raise("TypeError")

\* sum(values): a left fold of + from the int 0.
RECURSIVE PySumFrom(_, _, _)
PySumFrom(values, i, acc) ==
    IF i > Len(values) THEN Return(acc)
    ELSE LET s == PyAdd(acc, values[i])
         IN  IF s.exc # "none" THEN s ELSE PySumFrom(values, i + 1, s.val)

PySum(values) == PySumFrom(values, 1, PyInt(0))

\* dict.get(key, default)
dict_get(d, key, default) == IF key \in DOMAIN d THEN d[key] ELSE default

DigitChars == <<"0", "1", "2", "3", "4", "5", "6", "7", "8", "9">>

IsDigit(c) == \E d \in 1..Len(DigitChars) : DigitChars[d] = c

DigitVal(c) == (CHOOSE d \in 1..Len(DigitChars) : DigitChars[d] = c) - 1

IsSpace(c) == c \in {" ", "\t"}

RECURSIVE NatToStr(_)
NatToStr(n) ==
    IF n < Len(DigitChars) THEN <<DigitChars[n + 1]>>
    ELSE NatToStr(n \div Len(DigitChars)) \o <<DigitChars[(n % Len(DigitChars)) + 1]>>

\* str(v) of a cell: an int prints its digits, an integer-valued float
\* prints with ".0", nan prints "nan".
py_str(v) ==
    CASE v.t = "str" -> v.s
      [] v.t = "int" -> IF v.i < 0 THEN <<"-">> \o NatToStr(-v.i) ELSE NatToStr(v.i)
      [] v.t = "float" /\ IsIntegral(v.f) ->
            (IF v.f.sg < 0 THEN <<"-">> ELSE <<>>) \o NatToStr(AbsInt(IntOf(v.f))) \o <<".", "0">>
      [] v.t = "nan" -> <<"n", "a", "n">>
      [] v.t = "None" -> <<"N", "o", "n", "e">>

RECURSIVE lstrip(_)
lstrip(s) == IF s # <<>> /\ IsSpace(Head(s)) THEN lstrip(Tail(s)) ELSE s

RECURSIVE rstrip(_)
rstrip(s) ==
    IF s # <<>> /\ IsSpace(s[Len(s)]) THEN rstrip(SubSeq(s, 1, Len(s) - 1)) ELSE s

\* str.strip()
strip(s) == rstrip(lstrip(s))

\* str.replace(old, new) for a one-character old.
RECURSIVE replace(_, _, _)
replace(s, old, new) ==
    IF s = <<>> THEN <<>>
    ELSE (IF Head(s) = old THEN new ELSE <<Head(s)>>) \o replace(Tail(s), old, new)

RECURSIVE DigitsToNat(_)
DigitsToNat(s) ==
    IF s = <<>> THEN 0
    ELSE DigitsToNat(SubSeq(s, 1, Len(s) - 1)) * Len(DigitChars) + DigitVal(s[Len(s)])

AllDigits(s) == \A i \in 1..Len(s) : IsDigit(s[i])

RECURSIVE Pow10(_)
Pow10(k) == IF k = 0 THEN 1 ELSE Len(DigitChars) * Pow10(k - 1)

\* float(s) of a str: surrounding whitespace is dropped, then an optional
\* sign and either "nan" or digits with at most one point and at least one
\* digit, correctly rounded; anything else raises ValueError. (Exponents,
\* underscores and "inf" need characters the cells of the model do not hold.)
float_of_str(s0) ==
    LET s == strip(s0)
        signed == s # <<>> /\ s[1] \in {"+", "-"}
        body == IF signed THEN Tail(s) ELSE s
        dots == {i \in 1..Len(body) : body[i] = "."}
        d == IF dots = {} THEN Len(body) + 1 ELSE CHOOSE i \in dots : TRUE
        ip == SubSeq(body, 1, d - 1)
        fp == SubSeq(body, d + 1, Len(body))
        n == DigitsToNat(ip \o fp)
        mag == IF fp = <<>> THEN FloatOfInt(n)
               ELSE FloatDiv(FloatOfInt(n), FloatOfInt(Pow10(Len(fp))))
    IN  IF body = <<"n", "a", "n">> THEN Return(PyNaN)
        ELSE IF Cardinality(dots) <= 1 /\ AllDigits(ip) /\ AllDigits(fp)
                    /\ Len(ip) + Len(fp) >= 1
             THEN Return(PyFloat(IF signed /\ s[1] = "-" THEN FloatNeg(mag) ELSE mag))
             ELSE Raise("ValueError")

\* float(v)
py_float(v) ==
    CASE v.t = "int" -> Return(PyFloat(FloatOfInt(v.i)))
      [] v.t \in {"float", "nan"} -> Return(v)
      [] v.t = "str" -> float_of_str(v.s)
      [] OTHER -> Raise("TypeError")

\* pd.isna(value) of a scalar
isna(value) == value.t \in {"nan", "None"}

\* ---------------------------------------------------------------------
\* compare_api_vs_csv.py: DataComparator, the report aggregator.
\* by_article is the dict in insertion order: a sequence of buckets, each
\* holding its key in nm_id.
\* ---------------------------------------------------------------------
_safe_float(value) ==
    IF isna(value) THEN Return(PyFloat(Zero))
    ELSE LET v == IF value.t = "str"
                  THEN PyStr(replace(replace(replace(replace(value.s, " ", <<>>),
                                                     ",", <<".">>), "₽", <<>>), "%", <<>>))
                  ELSE value
             r == py_float(v)
         IN  IF r.exc = "none" THEN r ELSE Return(PyFloat(Zero))

\* The position of key in by_article, 0 when it is not a key of it.
KeyIndex(by_article, key) ==
    IF \E j \in 1..Len(by_article) : PyEq(by_article[j].nm_id, key)
    THEN CHOOSE j \in 1..Len(by_article) : PyEq(by_article[j].nm_id, key)
    ELSE 0

\* The fields the API path sums, in the order of its += statements.
SumFields ==
    <<"quantity", "ppvz_for_pay", "retail_amount", "ppvz_sales_commission",
      "delivery_rub", "storage_fee", "penalty", "acceptance">>

NewApiBucket(nm_id, row) ==
    [nm_id |-> nm_id,
     subject_name |-> dict_get(row, "subject_name", PyStr(<<>>)),
     brand_name |-> dict_get(row, "brand_name", PyStr(<<>>)),
     quantity |-> PyInt(0), ppvz_for_pay |-> PyInt(0), retail_amount |-> PyInt(0),
     ppvz_sales_commission |-> PyInt(0), delivery_rub |-> PyInt(0),
     storage_fee |-> PyInt(0), penalty |-> PyInt(0), acceptance |-> PyInt(0)]

\* bucket[f] += row.get(f, 0) for the fields from the i-th on; the first
\* TypeError leaves the function.
RECURSIVE AddRowFields(_, _, _)
AddRowFields(bucket, row, i) ==
    IF i > Len(SumFields) THEN Return(bucket)
    ELSE LET f == SumFields[i]
             s == PyAdd(bucket[f], dict_get(row, f, PyInt(0)))
         IN  IF s.exc # "none" THEN s
             ELSE AddRowFields([bucket EXCEPT ![f] = s.val], row, i + 1)

\* The loop over report_data from its i-th row on.
RECURSIVE ApiLoop(_, _, _)
ApiLoop(report_data, i, by_article) ==
    IF i > Len(report_data) THEN Return(by_article)
    ELSE LET row == report_data[i]
             nm_id == dict_get(row, "nm_id", PyNone)
         IN  IF ~Truthy(nm_id) THEN ApiLoop(report_data, i + 1, by_article)
             ELSE LET known == KeyIndex(by_article, nm_id)
                      created == IF known = 0
                                 THEN Append(by_article, NewApiBucket(nm_id, row))
                                 ELSE by_article
                      j == IF known = 0 THEN Len(created) ELSE known
                      added == AddRowFields(created[j], row, 1)
                  IN  IF added.exc # "none" THEN added
                      ELSE ApiLoop(report_data, i + 1, [created EXCEPT ![j] = added.val])

FieldOf(by_article, f) == [j \in 1..Len(by_article) |-> by_article[j][f]]

Metrics(by_article, quantity_field, to_pay_field) ==
    [by_article |-> by_article,
     total_articles |-> PyInt(Len(by_article)),
     total_quantity |-> PySum(FieldOf(by_article, quantity_field)).val,
     total_to_pay |-> PySum(FieldOf(by_article, to_pay_field)).val]

\* The metrics of the buckets the loop left, or the exception that ended it.
MetricsOfLoop(looped) ==
    IF looped.exc # "none" THEN looped
    ELSE Return(Metrics(looped.val, "quantity", "ppvz_for_pay"))

calculate_metrics_from_api(api_data_) ==
    IF "reportDetail" \notin DOMAIN api_data_ THEN Return(EmptyDict)
    ELSE LET entry == api_data_["reportDetail"]
         IN  IF "status" \notin DOMAIN entry THEN Raise("KeyError")
             ELSE IF entry["status"] # "success" THEN Return(EmptyDict)
             ELSE IF "data" \notin DOMAIN entry THEN Raise("KeyError")
             ELSE IF ~(Truthy(entry["data"]) /\ Len(entry["data"].items) > 0)
                  THEN Return(EmptyDict)
             ELSE MetricsOfLoop(ApiLoop(entry["data"].items, 1, <<>>))

\* row.iloc[j] if len(row) > j else the default
CellOr(row, ncols, j, default) == IF ncols > j THEN row[j] ELSE default

\* The loop over df.iterrows() from the i-th row on. Nothing in its try
\* block raises on the cells of the model, so the except branch is not taken.
RECURSIVE CsvLoop(_, _, _, _)
CsvLoop(rows, ncols, i, by_article) ==
    IF i > Len(rows) THEN by_article
    ELSE LET row == rows[i]
             nm_id == strip(py_str(row[2]))
         IN  IF nm_id = <<>> \/ nm_id = <<"n", "a", "n">>
             THEN CsvLoop(rows, ncols, i + 1, by_article)
             ELSE LET article ==
                          [nm_id |-> PyStr(nm_id),
                           seller_article |->
                               PyStr(IF ncols > 3 THEN py_str(row[3]) ELSE <<>>),
                           name |-> PyStr(IF ncols > 5 THEN py_str(row[5]) ELSE <<>>),
                           quantity |->
                               IF ncols > 9 THEN _safe_float(row[9]).val ELSE PyInt(0),
                           to_pay |->
                               IF ncols > 48 THEN _safe_float(row[48]).val ELSE PyInt(0)]
                      known == KeyIndex(by_article, PyStr(nm_id))
                  IN  CsvLoop(rows, ncols, i + 1,
                              IF known = 0 THEN Append(by_article, article)
                              ELSE [by_article EXCEPT ![known] = article])

\* df.iloc[:, 2] raises IndexError on a frame of fewer than three columns;
\* notna() drops NaN and None, != '-1' drops the str '-1' (an int64 -1 is
\* not equal to a str).
calculate_metrics_from_csv(df_) ==
    IF df_.ncols <= 2 THEN Raise("IndexError")
    ELSE LET notna == SelectSeq(df_.rows, LAMBDA row : ~isna(row[2]))
             kept == SelectSeq(notna, LAMBDA row : row[2] # PyStr(<<"-", "1">>))
         IN  Return(Metrics(CsvLoop(kept, df_.ncols, 1, <<>>), "quantity", "to_pay"))

\* Python's a - b, a * b, a / b and abs(a) on numbers.
PySub(a, b) ==
    IF a.t = "int" /\ b.t = "int" THEN Return(PyInt(a.i - b.i))
    ELSE IF IsNumber(a) /\ IsNumber(b) THEN Return(PyFloat(FloatSub(NumOf(a), NumOf(b))))
    ELSE IF (IsNumber(a) \/ a.t = "nan") /\ (IsNumber(b) \/ b.t = "nan") THEN Return(PyNaN)
    ELSE Raise("TypeError")

PyMul(a, b) ==
    IF a.t = "int" /\ b.t = "int" THEN Return(PyInt(a.i * b.i))
    ELSE IF IsNumber(a) /\ IsNumber(b) THEN Return(PyFloat(FloatMul(NumOf(a), NumOf(b))))
    ELSE IF (IsNumber(a) \/ a.t = "nan") /\ (IsNumber(b) \/ b.t = "nan") THEN Return(PyNaN)
    ELSE Raise("TypeError")

PyDiv(a, b) ==
    IF IsNumber(a) /\ IsNumber(b)
    THEN IF NumOf(b) = Zero THEN Raise("ZeroDivisionError")
         ELSE Return(PyFloat(FloatDiv(NumOf(a), NumOf(b))))
    ELSE IF (IsNumber(a) \/ a.t = "nan") /\ (IsNumber(b) \/ b.t = "nan") THEN Return(PyNaN)
    ELSE Raise("TypeError")

\* abs(a) < b; every comparison with nan is False.
PyAbsLess(a, b) == IsNumber(a) /\ IsNumber(b) /\ FloatCmp(FloatAbs(NumOf(a)), NumOf(b)) < 0

\* _compare_value returns None; its outcome here is what it prints: the
\* locals diff, diff_pct and status, before their formatting. The status
\* is "ok" for the check mark and "warn" for the warning sign.
_compare_value_FlagAbove(api_val, csv_val) ==
    LET diff == PySub(api_val, csv_val)
    IN  IF diff.exc # "none" THEN diff
        ELSE LET diff_pct == IF ~PyEq(csv_val, PyInt(0))
                             THEN PyMul(PyDiv(diff.val, csv_val).val, PyInt(100)).val
                             ELSE PyInt(0)
                 status == IF ~PyAbsLess(PyInt(5), diff_pct) THEN "ok" ELSE "warn"
             IN  Return([diff |-> diff.val, diff_pct |-> diff_pct, status |-> status])

_compare_value_PctOfApi(api_val, csv_val) ==
    LET diff == PySub(api_val, csv_val)
    IN  IF diff.exc # "none" THEN diff
        ELSE LET diff_pct == IF ~PyEq(api_val, PyInt(0))
                             THEN PyMul(PyDiv(diff.val, api_val).val, PyInt(100)).val
                             ELSE PyInt(0)
                 status == IF PyAbsLess(diff_pct, PyInt(5)) THEN "ok" ELSE "warn"
             IN  Return([diff |-> diff.val, diff_pct |-> diff_pct, status |-> status])

_compare_value(api_val, csv_val) ==
    LET diff == PySub(api_val, csv_val)
    IN  IF diff.exc # "none" THEN diff
        ELSE LET diff_pct == IF ~PyEq(csv_val, PyInt(0))
                             THEN PyMul(PyDiv(diff.val, csv_val).val, PyInt(100)).val
                             ELSE PyInt(0)
                 status == IF PyAbsLess(diff_pct, PyInt(5)) THEN "ok" ELSE "warn"
             IN  Return([diff |-> diff.val, diff_pct |-> diff_pct, status |-> status])

\* set(metrics["by_article"].keys())
ArticleKeys(metrics) ==
    {metrics["by_article"][j].nm_id : j \in 1..Len(metrics["by_article"])}

SetAnd(A, B) == {k \in A : \E k2 \in B : PyEq(k, k2)}

SetMinus(A, B) == {k \in A : ~\E k2 \in B : PyEq(k, k2)}

TotalNames == <<"total_articles", "total_quantity", "total_to_pay">>

\* compare_metrics returns None; its outcome is what it prints: the three
\* comparisons, and the three sets when both dicts hold by_article.
CompareTotals(api_metrics_, csv_metrics_) ==
    CollectOutcomes([n \in 1..Len(TotalNames) |->
                        _compare_value(dict_get(api_metrics_, TotalNames[n], PyInt(0)),
                                       dict_get(csv_metrics_, TotalNames[n], PyInt(0)))])

\* What is printed after the three comparisons: the sets, when compared.
ComparedSets(totals, by_both, common, only_api, only_csv) ==
    IF totals.exc # "none" THEN totals
    ELSE Return([values |-> totals.val, by_article |-> by_both, common |-> common,
                 only_api |-> only_api, only_csv |-> only_csv])

compare_metrics_OnlyCsvAll(api_metrics_, csv_metrics_) ==
    LET by_both == "by_article" \in DOMAIN api_metrics_ /\ "by_article" \in DOMAIN csv_metrics_
        api_articles == IF by_both THEN ArticleKeys(api_metrics_) ELSE {}
        csv_articles == IF by_both THEN ArticleKeys(csv_metrics_) ELSE {}
    IN  ComparedSets(CompareTotals(api_metrics_, csv_metrics_), by_both,
                     SetAnd(api_articles, csv_articles),
                     SetMinus(api_articles, csv_articles),
                     csv_articles)

compare_metrics(api_metrics_, csv_metrics_) ==
    LET by_both == "by_article" \in DOMAIN api_metrics_ /\ "by_article" \in DOMAIN csv_metrics_
        api_articles == IF by_both THEN ArticleKeys(api_metrics_) ELSE {}
        csv_articles == IF by_both THEN ArticleKeys(csv_metrics_) ELSE {}
    IN  ComparedSets(CompareTotals(api_metrics_, csv_metrics_), by_both,
                     SetAnd(api_articles, csv_articles),
                     SetMinus(api_articles, csv_articles),
                     SetMinus(csv_articles, api_articles))

\* The report dict save_comparison_report builds and dumps to output_path;
\* now is datetime.now().isoformat().
save_comparison_report(api_metrics_, csv_metrics_, now) ==
    LET diffs == [n \in 1..Len(TotalNames) |->
                     PySub(dict_get(api_metrics_, TotalNames[n], PyInt(0)),
                           dict_get(csv_metrics_, TotalNames[n], PyInt(0)))]
    IN  IF \E n \in 1..Len(TotalNames) : diffs[n].exc # "none" THEN Raise("TypeError")
        ELSE Return([generated_at |-> now,
                     api_metrics |-> api_metrics_,
                     csv_metrics |-> csv_metrics_,
                     comparison |-> [articles_diff |-> diffs[1].val,
                                     quantity_diff |-> diffs[2].val,
                                     to_pay_diff |-> diffs[3].val]])

\* ---------------------------------------------------------------------
\* Inputs of the calculator calls.
\* ---------------------------------------------------------------------
MaxAmount == 3
MaxUnits == 2

\* Amounts in roubles: small integers of both signs, the amounts of
\* tests/test_calculator.py, and amounts with kopecks (0.1, 0.3).
Amounts ==
    {FloatOfInt(i) : i \in (-MaxAmount)..MaxAmount}
        \cup {FloatOfInt(7), FloatOfInt(100), FloatOfInt(2000), FloatOfInt(4000),
              FloatOfInt(6000), FloatOfInt(10000), Dec(1, 10), Dec(3, 10)}

Units == 0..MaxUnits

\* <<sales, returns, self_purchase_count, giveaway_count>>
CountCases ==
    {<<100, 10, 5, 5>>, <<0, 0, 0, 0>>, <<1, 2, 1, 1>>}
        \cup {<<s, 1, 0, 0>> : s \in 1..MaxUnits}

\* <<cost_per_unit, giveaway_cost>>
CostCases ==
    {<<FloatOfInt(100), Zero>>, <<FloatOfInt(2), FloatOfInt(7)>>, <<Dec(1, 10), Dec(2, 10)>>}

RevenueCases == {Zero, FloatOfInt(10000), Dec(3, 10)}

\* <<logistics_cost, storage_cost, penalty_cost, acceptance_cost,
\*   commission_with_spp, drr_cost, marketing_cost, surcharges>>
ExpenseCases ==
    {<<Zero, Zero, Zero, Zero, Zero, Zero, Zero, Zero>>,
     <<FloatOfInt(1), FloatOfInt(2), FloatOfInt(4), FloatOfInt(8), FloatOfInt(16),
       FloatOfInt(32), FloatOfInt(64), FloatOfInt(128)>>,
     <<Dec(1, 10), Dec(2, 10), Dec(3, 10), Zero, Zero, Zero, Dec(7, 10), Dec(1, 10)>>,
     <<FloatOfInt(2000), Zero, Zero, Zero, Zero, Zero, Zero, FloatOfInt(5)>>}

\* <<commission_without_spp, returns_amount, self_purchase_cost,
\*   sales_amount_before_spp>>: fields no formula of the calculator reads.
UnreadCases ==
    {<<Zero, Zero, Zero, Zero>>,
     <<FloatOfInt(11), FloatOfInt(13), FloatOfInt(17), FloatOfInt(12000)>>}

MakeProduct(c, k, r, x, u) ==
    [Product(123) EXCEPT
        !.sales = c[1], !.returns = c[2],
        !.manual_data.self_purchase_count = c[3], !.manual_data.giveaway_count = c[4],
        !.manual_data.cost_per_unit = k[1], !.manual_data.giveaway_cost = k[2],
        !.sales_amount_after_spp = r,
        !.logistics_cost = x[1], !.storage_cost = x[2], !.penalty_cost = x[3],
        !.acceptance_cost = x[4], !.commission_with_spp = x[5], !.drr_cost = x[6],
        !.manual_data.marketing_cost = x[7], !.surcharges = x[8],
        !.commission_without_spp = u[1], !.returns_amount = u[2],
        !.manual_data.self_purchase_cost = u[3], !.sales_amount_before_spp = u[4]]

Products ==
    {MakeProduct(c, k, r, x, u) :
        c \in CountCases, k \in CostCases, r \in RevenueCases, x \in ExpenseCases,
        u \in UnreadCases}

CogsArgs == {FloatOfInt(6000), Zero, FloatOfInt(-3), Dec(1, 10)}

NoArgs == [a |-> Zero, b |-> Zero, k |-> 0]

\* ---------------------------------------------------------------------
\* The calculator as a state machine: one call of one method per run.
\* ---------------------------------------------------------------------
CalcIdle ==
    /\ product = Product(123)
    /\ call = "none"
    /\ args = NoArgs
    /\ ret = Return(Zero)

AggIdle ==
    /\ api_data = EmptyDict
    /\ df = [ncols |-> 0, rows |-> <<>>]

CallerIdle ==
    /\ history = <<>>
    /\ products = <<>>
    /\ api_metrics = EmptyDict
    /\ csv_metrics = EmptyDict

IoIdle ==
    /\ tasks = <<>>
    /\ heap = <<>>

Init == CalcIdle /\ AggIdle /\ CallerIdle /\ IoIdle

CallCogs(p) ==
    /\ call = "none"
    /\ product' = p
    /\ call' = "calculate_cogs"
    /\ args' = NoArgs
    /\ ret' = calculate_cogs(p)
    /\ UNCHANGED <<api_data, df, callerVars, ioVars>>

CallGrossProfit(p, cogs) ==
    /\ call = "none"
    /\ product' = p
    /\ call' = "calculate_gross_profit"
    /\ args' = [NoArgs EXCEPT !.a = cogs]
    /\ ret' = calculate_gross_profit(p, cogs)
    /\ UNCHANGED <<api_data, df, callerVars, ioVars>>

CallTotalExpenses(p) ==
    /\ call = "none"
    /\ product' = p
    /\ call' = "calculate_total_expenses"
    /\ args' = NoArgs
    /\ ret' = calculate_total_expenses(p)
    /\ UNCHANGED <<api_data, df, callerVars, ioVars>>

CallAllMetrics(p) ==
    /\ call = "none"
    /\ product' = p
    /\ call' = "calculate_all_metrics"
    /\ args' = NoArgs
    /\ ret' = calculate_all_metrics(p)
    /\ UNCHANGED <<api_data, df, callerVars, ioVars>>

CallNetProfit(a, b) ==
    /\ call = "none"
    /\ call' = "calculate_net_profit"
    /\ args' = [NoArgs EXCEPT !.a = a, !.b = b]
    /\ ret' = calculate_net_profit(a, b)
    /\ UNCHANGED <<product, api_data, df, callerVars, ioVars>>

CallProfitMargin(a, b) ==
    /\ call = "none"
    /\ call' = "calculate_profit_margin"
    /\ args' = [NoArgs EXCEPT !.a = a, !.b = b]
    /\ ret' = calculate_profit_margin(a, b)
    /\ UNCHANGED <<product, api_data, df, callerVars, ioVars>>

CallRoi(a, b) ==
    /\ call = "none"
    /\ call' = "calculate_roi"
    /\ args' = [NoArgs EXCEPT !.a = a, !.b = b]
    /\ ret' = calculate_roi(a, b)
    /\ UNCHANGED <<product, api_data, df, callerVars, ioVars>>

CallAvgCheck(a, k) ==
    /\ call = "none"
    /\ call' = "calculate_avg_check"
    /\ args' = [NoArgs EXCEPT !.a = a, !.k = k]
    /\ ret' = calculate_avg_check(a, k)
    /\ UNCHANGED <<product, api_data, df, callerVars, ioVars>>

\* The methods that take a Product.
NextCalc ==
    \E p \in Products :
        \/ CallCogs(p)
        \/ \E cogs \in CogsArgs : CallGrossProfit(p, cogs)
        \/ CallTotalExpenses(p)
        \/ CallAllMetrics(p)

SpecCalc == Init /\ [][NextCalc]_vars

\* The methods that take scalars.
NextScalar ==
    \E a \in Amounts :
        \/ \E b \in Amounts : CallNetProfit(a, b)
        \/ \E b \in Amounts : CallProfitMargin(a, b)
        \/ \E b \in Amounts : CallRoi(a, b)
        \/ \E k \in Units : CallAvgCheck(a, k)

SpecScalar == Init /\ [][NextScalar]_vars

\* ---------------------------------------------------------------------
\* Inputs of the report aggregator.
\* ---------------------------------------------------------------------
MaxRecords == 3

SeqsUpTo(S, n) == UNION {[1..k -> S] : k \in 0..n}

Without(d, key) == [k \in DOMAIN d \ {key} |-> d[k]]

\* A record of the reportDetail report; storage_fee and acceptance are
\* absent from it.
ApiRow(nm_id, quantity, ppvz_for_pay) ==
    [nm_id |-> nm_id, subject_name |-> PyStr(<<"s">>), brand_name |-> PyStr(<<"b">>),
     quantity |-> quantity, ppvz_for_pay |-> ppvz_for_pay,
     retail_amount |-> PyInt(20), ppvz_sales_commission |-> PyFloat(Dec(1, 2)),
     delivery_rub |-> PyInt(1), penalty |-> PyInt(0)]

ApiRows ==
    {ApiRow(PyStr(<<"A">>), PyInt(2), PyInt(10)),
     ApiRow(PyStr(<<"A">>), PyInt(3), PyInt(5)),
     ApiRow(PyStr(<<"A">>), PyInt(1), PyFloat(Dec(3, 10))),
     ApiRow(PyNone, PyInt(99), PyInt(99)),
     Without(ApiRow(PyNone, PyInt(1), PyInt(1)), "nm_id"),
     ApiRow(PyStr(<<>>), PyInt(1), PyInt(1)),
     ApiRow(PyInt(-1), PyInt(4), PyInt(40)),
     Without(ApiRow(PyStr(<<"B">>), PyInt(0), PyFloat(Dec(1, 10))), "quantity"),
     ApiRow(PyStr(<<"B">>), PyNone, PyFloat(Dec(2, 10))),
     ApiRow(PyInt(7), PyInt(1), PyFloat(Dec(2, 10)))}

ApiReport(report_data) ==
    [reportDetail |-> [status |-> "success", data |-> PyList(report_data)]]

\* api_data: no reportDetail, a failed fetch, an entry without status, a
\* null payload, and the successes of up to MaxRecords records.
NoReportInputs ==
    {EmptyDict,
     [reportDetail |-> [status |-> "error", error |-> "HTTP 401"]],
     [reportDetail |-> [error |-> "Unknown report type"]],
     [reportDetail |-> [status |-> "success"]],
     [reportDetail |-> [status |-> "success", data |-> PyNone]]}

ApiInputs == NoReportInputs \cup {ApiReport(r) : r \in SeqsUpTo(ApiRows, MaxRecords)}

\* The columns of the export the aggregator reads.
ReadColumns == {2, 3, 5, 9, 48}

CsvRow(c2, c9, c48) ==
    [j \in ReadColumns |->
        CASE j = 2 -> c2
          [] j = 9 -> c9
          [] j = 48 -> c48
          [] OTHER -> PyStr(<<"x">>)]

CsvRows ==
    {CsvRow(PyStr(<<"A">>), PyStr(<<"2">>), PyStr(<<"1", "0">>)),
     CsvRow(PyStr(<<"A">>), PyStr(<<"3">>), PyStr(<<"5">>)),
     CsvRow(PyNaN, PyStr(<<"9", "9">>), PyStr(<<"9", "9">>)),
     CsvRow(PyStr(<<"-", "1">>), PyStr(<<"4">>), PyStr(<<"4", "0">>)),
     CsvRow(PyInt(-1), PyInt(4), PyInt(40)),
     CsvRow(PyStr(<<" ">>), PyStr(<<"1">>), PyStr(<<"1">>)),
     CsvRow(PyInt(7), PyStr(<<"1", " ", "2", "3", "4", ",", "5">>), PyFloat(Dec(1, 10))),
     CsvRow(PyStr(<<" ", "B">>), PyStr(<<"x">>), PyNaN)}

Frame(ncols, rows) == [ncols |-> ncols, rows |-> rows]

\* Frames of the 49 columns of the export, and narrower ones.
DataFrames ==
    {Frame(49, r) : r \in SeqsUpTo(CsvRows, MaxRecords)}
        \cup {Frame(n, r) : n \in {2, 3, 10}, r \in SeqsUpTo(CsvRows, 1)}

\* ---------------------------------------------------------------------
\* The aggregator as a state machine: one call of one method per run.
\* ---------------------------------------------------------------------
CalculateMetricsFromApi(d) ==
    /\ call = "none"
    /\ call' = "calculate_metrics_from_api"
    /\ api_data' = d
    /\ ret' = calculate_metrics_from_api(d)
    /\ UNCHANGED <<product, args, df, callerVars, ioVars>>

CalculateMetricsFromCsv(f) ==
    /\ call = "none"
    /\ call' = "calculate_metrics_from_csv"
    /\ df' = f
    /\ ret' = calculate_metrics_from_csv(f)
    /\ UNCHANGED <<product, args, api_data, callerVars, ioVars>>

NextAgg ==
    \/ \E d \in ApiInputs : CalculateMetricsFromApi(d)
    \/ \E f \in DataFrames : CalculateMetricsFromCsv(f)

SpecAgg == Init /\ [][NextAgg]_vars

\* ---------------------------------------------------------------------
\* The comparator as main drives it: compare_metrics on the two dicts the
\* aggregator returned, then save_comparison_report on the same two dicts.
\* ---------------------------------------------------------------------
MaxCompareRecords == 2

ApiMetricsInputs ==
    LET inputs == NoReportInputs
                      \cup {ApiReport(r) : r \in SeqsUpTo(ApiRows, MaxCompareRecords)}
    IN  {out.val : out \in {o \in {calculate_metrics_from_api(d) : d \in inputs} :
                                o.exc = "none"}}

CsvMetricsInputs ==
    {calculate_metrics_from_csv(Frame(49, r)).val : r \in SeqsUpTo(CsvRows, MaxCompareRecords)}

\* generated_at values the clock can give.
Clock == {"2026-01-01T00:00:00", "2026-01-01T00:00:01"}

InitCompare ==
    /\ CalcIdle
    /\ IoIdle
    /\ AggIdle
    /\ history = <<>>
    /\ products = <<>>
    /\ api_metrics \in ApiMetricsInputs
    /\ csv_metrics \in CsvMetricsInputs

\* A comparison that repairs a divergence: the CSV aggregate is given the
\* totals of the API aggregate.
CompareMetrics_Repairs ==
    /\ call = "none"
    /\ call' = "compare_metrics"
    /\ ret' = compare_metrics(api_metrics, csv_metrics)
    /\ csv_metrics' = [k \in DOMAIN csv_metrics |->
                          IF k \in DOMAIN api_metrics /\ k # "by_article"
                          THEN api_metrics[k] ELSE csv_metrics[k]]
    /\ UNCHANGED <<product, args, api_data, df, history, products, api_metrics, ioVars>>

CompareMetrics ==
    /\ call = "none"
    /\ call' = "compare_metrics"
    /\ ret' = compare_metrics(api_metrics, csv_metrics)
    /\ UNCHANGED <<product, args, api_data, df, callerVars, ioVars>>

SaveComparisonReport(now) ==
    /\ call = "compare_metrics"
    /\ ret.exc = "none"
    /\ call' = "save_comparison_report"
    /\ ret' = save_comparison_report(api_metrics, csv_metrics, now)
    /\ UNCHANGED <<product, args, api_data, df, callerVars, ioVars>>

NextCompare == CompareMetrics \/ \E now \in Clock : SaveComparisonReport(now)

SpecCompare == InitCompare /\ [][NextCompare]_vars

\* _compare_value called on one pair of totals.
CompareValues ==
    {PyInt(n) : n \in {0, 7, 95, 98, 100, 102, 105, -100}}
        \cup {PyFloat(Zero), PyFloat(Dec(3, 10)), PyFloat(Dec(1, 10)), PyFloat(Dec(1049, 10))}

CompareValue(api_val, csv_val) ==
    /\ call = "none"
    /\ call' = "_compare_value"
    /\ args' = [a |-> api_val, b |-> csv_val, k |-> 0]
    /\ ret' = _compare_value(api_val, csv_val)
    /\ UNCHANGED <<product, api_data, df, callerVars, ioVars>>

NextCompareValue == \E api_val, csv_val \in CompareValues : CompareValue(api_val, csv_val)

SpecCompareValue == Init /\ [][NextCompareValue]_vars

\* ---------------------------------------------------------------------
\* The command line's run over a list of products: process_products, then
\* export_to_csv of the metrics it returned.
\* ---------------------------------------------------------------------
MaxProducts == 2

\* Products of two identifiers: the product of tests/test_calculator.py, one
\* with nothing sold, one with kopeck amounts.
Catalogue ==
    {[p EXCEPT !.nm_id = n] :
        n \in {101, 102},
        p \in {MakeProduct(<<100, 10, 5, 5>>, <<FloatOfInt(100), Zero>>, FloatOfInt(10000),
                           <<FloatOfInt(2000), Zero, Zero, Zero, Zero, Zero, Zero, FloatOfInt(5)>>,
                           <<Zero, Zero, Zero, Zero>>),
               MakeProduct(<<0, 0, 0, 0>>, <<FloatOfInt(2), FloatOfInt(7)>>, Zero,
                           <<Zero, Zero, Zero, Zero, Zero, Zero, Zero, Zero>>,
                           <<Zero, Zero, Zero, Zero>>),
               MakeProduct(<<2, 1, 0, 0>>, <<Dec(1, 10), Dec(2, 10)>>, Dec(3, 10),
                           <<Dec(1, 10), Dec(2, 10), Dec(3, 10), Zero, Zero, Zero, Dec(7, 10),
                             Dec(1, 10)>>,
                           <<FloatOfInt(11), FloatOfInt(13), FloatOfInt(17), FloatOfInt(12000)>>)}}

InitProcess ==
    /\ CalcIdle
    /\ IoIdle
    /\ AggIdle
    /\ history = <<>>
    /\ api_metrics = EmptyDict
    /\ csv_metrics = EmptyDict
    /\ products \in SeqsUpTo(Catalogue, MaxProducts)

ProcessProducts ==
    /\ call = "none"
    /\ call' = "process_products"
    /\ ret' = process_products(products)
    /\ UNCHANGED <<product, args, api_data, df, callerVars, ioVars>>

ExportToCsv ==
    /\ call = "process_products"
    /\ ret.exc = "none"
    /\ call' = "export_to_csv"
    /\ ret' = export_to_csv(ret.val)
    /\ UNCHANGED <<product, args, api_data, df, callerVars, ioVars>>

NextProcess == ProcessProducts \/ ExportToCsv

SpecProcess == InitProcess /\ [][NextProcess]_vars

\* ---------------------------------------------------------------------
\* A caller holding one Calculator and a list of Products, calling
\* calculate_all_metrics on any of them, in any order, again and again.
\* calculate_all_metrics assigns to no field of self, of the Product or of
\* its ManualInputData; history keeps each call's product and result.
\* ---------------------------------------------------------------------
MaxCalls == 3

\* A calculator that stores the cogs it computed in the product's cost.
CalculateAllMetricsOn_StoresCogs(i) ==
    /\ Len(history) < MaxCalls
    /\ call' = "calculate_all_metrics"
    /\ product' = products[i]
    /\ args' = NoArgs
    /\ ret' = calculate_all_metrics(products[i])
    /\ history' = Append(history, [call |-> call', input |-> i, product |-> products[i],
                                   ret |-> ret'])
    /\ products' = [products EXCEPT ![i].manual_data.cost_per_unit = ret'.val.cogs]
    /\ UNCHANGED <<api_data, df, api_metrics, csv_metrics, ioVars>>

CalculateAllMetricsOn(i) ==
    /\ Len(history) < MaxCalls
    /\ call' = "calculate_all_metrics"
    /\ product' = products[i]
    /\ args' = NoArgs
    /\ ret' = calculate_all_metrics(products[i])
    /\ history' = Append(history, [call |-> call', input |-> i, product |-> products[i],
                                   ret |-> ret'])
    /\ UNCHANGED <<products, api_data, df, api_metrics, csv_metrics, ioVars>>

NextReentrant == \E i \in 1..Len(products) : CalculateAllMetricsOn(i)

SpecReentrant == InitProcess /\ [][NextReentrant]_vars

\* ---------------------------------------------------------------------
\* Properties of the calculator.
\* ---------------------------------------------------------------------
IntegralAll(S) == \A x \in S : IsIntegral(x)

ExpenseFields(p) ==
    <<p.logistics_cost, p.storage_cost, p.penalty_cost, p.acceptance_cost,
      p.commission_with_spp, p.drr_cost, p.manual_data.marketing_cost, p.surcharges>>

NetSold(p) ==
    p.sales - p.returns - p.manual_data.self_purchase_count - p.manual_data.giveaway_count

WithoutUnread(p) ==
    [p EXCEPT !.commission_without_spp = Zero, !.returns_amount = Zero,
              !.manual_data.self_purchase_cost = Zero, !.sales_amount_before_spp = Zero]

\* C1: with a zero denominator calculate_profit_margin(g, 0), calculate_roi(n, 0)
\* and calculate_avg_check(r, 0) return 0.0 and raise nothing, whatever the
\* numerator.
C1_ZeroDenominatorReturnsZero ==
    /\ (call \in {"calculate_profit_margin", "calculate_roi"} /\ args.b = Zero)
          => ret = Return(Zero)
    /\ (call = "calculate_avg_check" /\ args.k = 0) => ret = Return(Zero)

C1_Witness ==
    /\ call = "calculate_roi"
    /\ args.a = FloatOfInt(2000)
    /\ args.b = Zero
    /\ ret = Return(Zero)

C4_GrossProfitFormula ==
    call = "calculate_gross_profit" =>
        /\ ret = Return(FloatSub(product.sales_amount_after_spp, args.a))
        /\ IntegralAll({product.sales_amount_after_spp, args.a}) =>
              /\ IsIntegral(ret.val)
              /\ IntOf(ret.val) = IntOf(product.sales_amount_after_spp) - IntOf(args.a)
        /\ (product.sales_amount_after_spp = FloatOfInt(10000) /\ args.a = FloatOfInt(6000))
              => ret.val = FloatOfInt(4000)
        /\ calculate_gross_profit(WithoutUnread(product), args.a) = ret

C4_Witness ==
    /\ call = "calculate_gross_profit"
    /\ product.sales_amount_after_spp = FloatOfInt(10000)
    /\ product.sales_amount_before_spp = FloatOfInt(12000)
    /\ args.a = FloatOfInt(6000)
    /\ ret = Return(FloatOfInt(4000))

\* The fields of the ProductMetrics are the methods' results, each fed as the
\* source feeds it.
MetricsComposed ==
    LET p == product
        m == ret.val
    IN  /\ ret.exc = "none"
        /\ m.product = p
        /\ m.cogs = calculate_cogs(p).val
        /\ m.gross_profit = calculate_gross_profit(p, m.cogs).val
        /\ m.total_expenses = calculate_total_expenses(p).val
        /\ m.net_profit = FloatSub(m.gross_profit, m.total_expenses)
        /\ m.profit_margin_percent
              = calculate_profit_margin(m.gross_profit, p.sales_amount_after_spp).val
        /\ m.roi_percent = calculate_roi(m.net_profit, m.cogs).val
        /\ m.avg_check = calculate_avg_check(p.sales_amount_after_spp, p.sales).val

AmountsOf(p) ==
    {p.sales_amount_after_spp, p.manual_data.cost_per_unit, p.manual_data.giveaway_cost}
        \cup {ExpenseFields(p)[i] : i \in 1..8}

WithinRounding(result, n, d) ==
    LET exact == ExMul(n, FloatOfInt(100))
        err == ExAbs(ExSub(ExMul(result, d), exact))
    IN  ExCmp(ExScale(err, 51), ExAbs(exact)) <= 0

\* C6 as stated: for r # 0, calculate_profit_margin(g, r) * r = g * 100.
C6_Original ==
    (call = "calculate_profit_margin" /\ args.b # Zero) =>
        /\ ret.exc = "none"
        /\ ExMul(ret.val, args.b) = ExMul(args.a, FloatOfInt(100))

\* C6 as amended: for r # 0, calculate_profit_margin(g, r) is the float
\* (g / r) * 100, equal to 100 * g / r up to a relative rounding error of
\* 2^-51, for either sign of g and r; g = 4000, r = 10000 give exactly 40.0.
C6_MarginWithinRounding ==
    (call = "calculate_profit_margin" /\ args.b # Zero) =>
        /\ ret.exc = "none"
        /\ WithinRounding(ret.val, args.a, args.b)
        /\ (args.a = FloatOfInt(4000) /\ args.b = FloatOfInt(10000))
              => ret.val = FloatOfInt(40)

C6_Witness ==
    /\ call = "calculate_profit_margin"
    /\ args.a = FloatOfInt(-3)
    /\ args.b = FloatOfInt(-2)
    /\ ret = Return(FloatOfInt(150))

\* C7 as stated: for c # 0, calculate_roi(n, c) * c = n * 100.
C7_Original ==
    (call = "calculate_roi" /\ args.b # Zero) =>
        /\ ret.exc = "none"
        /\ ExMul(ret.val, args.b) = ExMul(args.a, FloatOfInt(100))

\* C7 as amended: for c # 0, calculate_roi(n, c) is the float (n / c) * 100,
\* equal to 100 * n / c up to a relative rounding error of 2^-51; for
\* n = 2000, c = 6000 it is within 0.01 of 33.33.
C7_RoiWithinRounding ==
    (call = "calculate_roi" /\ args.b # Zero) =>
        /\ ret.exc = "none"
        /\ WithinRounding(ret.val, args.a, args.b)
        /\ (args.a = FloatOfInt(2000) /\ args.b = FloatOfInt(6000))
              => FloatCmp(FloatAbs(FloatSub(ret.val, Dec(3333, 100))), Dec(1, 100)) < 0

C7_Witness ==
    /\ call = "calculate_roi"
    /\ args.a = FloatOfInt(2000)
    /\ args.b = FloatOfInt(6000)
    /\ ret.exc = "none"
    /\ ret.val # Dec(3333, 100)
    /\ FloatCmp(FloatAbs(FloatSub(ret.val, Dec(3333, 100))), Dec(1, 100)) < 0

\* ---------------------------------------------------------------------
\* Properties of the report aggregator.
\* ---------------------------------------------------------------------
AggCalls == {"calculate_metrics_from_api", "calculate_metrics_from_csv"}

\* The input of the call made.
InputOf(path) == IF path = "calculate_metrics_from_api" THEN api_data ELSE df

HasRecords(api_data_) ==
    /\ "reportDetail" \in DOMAIN api_data_
    /\ "data" \in DOMAIN api_data_["reportDetail"]
    /\ api_data_["reportDetail"]["data"].t = "list"

\* The raw records of an input, in input order.
RecordsOf(path, input) ==
    IF path = "calculate_metrics_from_api"
    THEN IF HasRecords(input) THEN input["reportDetail"]["data"].items ELSE <<>>
    ELSE input.rows

WithRecords(path, input, records) ==
    IF path = "calculate_metrics_from_api"
    THEN IF HasRecords(input)
         THEN [input EXCEPT !["reportDetail"]["data"] = PyList(records)]
         ELSE input
    ELSE [input EXCEPT !.rows = records]

Aggregate(path, input) ==
    IF path = "calculate_metrics_from_api" THEN calculate_metrics_from_api(input)
    ELSE calculate_metrics_from_csv(input)

\* The identifier field of a raw record, and the key it stands for.
IdOf(path, rec) ==
    IF path = "calculate_metrics_from_api" THEN dict_get(rec, "nm_id", PyNone) ELSE rec[2]

KeyOf(path, rec) ==
    IF path = "calculate_metrics_from_api" THEN IdOf(path, rec)
    ELSE PyStr(strip(py_str(rec[2])))

\* An identifier that is present, not empty and not the sentinel -1.
Resolvable(id) ==
    \/ id.t = "int" /\ id.i # -1
    \/ id.t = "str" /\ strip(id.s) \notin {<<>>, <<"-", "1">>}

\* The quantity and the amount payable a raw record carries.
QuantityOf(path, input, rec) ==
    IF path = "calculate_metrics_from_api" THEN dict_get(rec, "quantity", PyInt(0))
    ELSE CellOr([j \in DOMAIN rec |-> _safe_float(rec[j]).val], input.ncols, 9, PyInt(0))

PayableOf(path, input, rec) ==
    IF path = "calculate_metrics_from_api" THEN dict_get(rec, "ppvz_for_pay", PyInt(0))
    ELSE CellOr([j \in DOMAIN rec |-> _safe_float(rec[j]).val], input.ncols, 48, PyInt(0))

PayableField(path) ==
    IF path = "calculate_metrics_from_api" THEN "ppvz_for_pay" ELSE "to_pay"

SumQuantity(path, input, records) ==
    PySum([i \in 1..Len(records) |-> QuantityOf(path, input, records[i])])

SumPayable(path, input, records) ==
    PySum([i \in 1..Len(records) |-> PayableOf(path, input, records[i])])

\* What a caller reads from an outcome, an absent key read as empty or 0.
ByArticle(out) ==
    IF out.exc = "none" /\ "by_article" \in DOMAIN out.val THEN out.val["by_article"]
    ELSE <<>>

Total(out, name) ==
    IF out.exc = "none" /\ name \in DOMAIN out.val THEN out.val[name] ELSE PyInt(0)

View(out) ==
    [exc |-> out.exc, by_article |-> ByArticle(out),
     total_articles |-> Total(out, "total_articles"),
     total_quantity |-> Total(out, "total_quantity"),
     total_to_pay |-> Total(out, "total_to_pay")]

UsableRecords(path, input) ==
    SelectSeq(RecordsOf(path, input), LAMBDA r : Resolvable(IdOf(path, r)))

\* C8: on both paths, every valid identifier k of the input has a bucket whose
\* quantity and amount payable are the sums of those fields over all input
\* records with identifier k; a later record of k adds to the bucket and never
\* overwrites it.
C8_BucketsAccumulate ==
    (call \in AggCalls /\ ret.exc = "none") =>
        LET input == InputOf(call)
            usable == UsableRecords(call, input)
        IN  \A i \in 1..Len(usable) :
                LET k == KeyOf(call, usable[i])
                    of_k == SelectSeq(usable, LAMBDA r : PyEq(KeyOf(call, r), k))
                    quantity == SumQuantity(call, input, of_k)
                    payable == SumPayable(call, input, of_k)
                    j == KeyIndex(ByArticle(ret), k)
                IN  (quantity.exc = "none" /\ payable.exc = "none") =>
                        /\ j # 0
                        /\ PyEq(ByArticle(ret)[j]["quantity"], quantity.val)
                        /\ PyEq(ByArticle(ret)[j][PayableField(call)], payable.val)

\* C9: on both paths, the records whose identifier is missing, empty or the
\* sentinel -1 are skipped: buckets and totals are those of the input without
\* these records.
C9_UnusableIdentifierSkipped ==
    call \in AggCalls =>
        LET input == InputOf(call)
        IN  View(ret)
              = View(Aggregate(call, WithRecords(call, input, UsableRecords(call, input))))

\* C10: total_quantity and total_to_pay are the sums of quantity and amount
\* payable over the raw records with a resolvable identifier, and
\* total_articles is the number of distinct resolvable identifiers.
C10_TotalsOverRawRecords ==
    (call \in AggCalls /\ ret.exc = "none") =>
        LET input == InputOf(call)
            usable == UsableRecords(call, input)
            quantity == SumQuantity(call, input, usable)
            payable == SumPayable(call, input, usable)
            keys == {KeyOf(call, usable[i]) : i \in 1..Len(usable)}
        IN  (quantity.exc = "none" /\ payable.exc = "none") =>
                /\ PyEq(Total(ret, "total_quantity"), quantity.val)
                /\ PyEq(Total(ret, "total_to_pay"), payable.val)
                /\ Total(ret, "total_articles") = PyInt(Cardinality(keys))

\* The records in the order p, a permutation of their positions.
Reordered(records, p) == [i \in 1..Len(records) |-> records[p[i]]]

\* Two outcomes a caller cannot tell apart: the same exception, the same
\* mapping of identifier to bucket (a dict compares regardless of insertion
\* order) and the same totals.
SameResult(a, b) ==
    /\ a.exc = b.exc
    /\ {ByArticle(a)[j] : j \in 1..Len(ByArticle(a))}
          = {ByArticle(b)[j] : j \in 1..Len(ByArticle(b))}
    /\ Total(a, "total_articles") = Total(b, "total_articles")
    /\ Total(a, "total_quantity") = Total(b, "total_quantity")
    /\ Total(a, "total_to_pay") = Total(b, "total_to_pay")

\* C11: on both paths the aggregator returns the same mapping of identifier to
\* bucket and the same totals for every ordering of the input records.
C11_OrderIndependent ==
    call \in AggCalls =>
        LET input == InputOf(call)
            records == RecordsOf(call, input)
        IN  \A p \in Permutations(1..Len(records)) :
                SameResult(ret, Aggregate(call, WithRecords(call, input, Reordered(records, p))))

\* ---------------------------------------------------------------------
\* A caller that runs the aggregator again on the objects it holds (main
\* holds one DataComparator, one api_data and one DataFrame). Neither method
\* assigns to self, to api_data or its rows, or to the caller's df (df is
\* rebound locally to the filtered frames), so each run leaves them as they
\* were; history keeps what each run was given and what it returned.
\* ---------------------------------------------------------------------
MaxRuns == 2
MaxRerunRecords == 2

InitRerun ==
    /\ CalcIdle
    /\ IoIdle
    /\ CallerIdle
    /\ \/ /\ api_data \in NoReportInputs
                 \cup {ApiReport(r) : r \in SeqsUpTo(ApiRows, MaxRerunRecords)}
          /\ df = Frame(49, <<>>)
       \/ /\ api_data = EmptyDict
          /\ df \in {Frame(49, r) : r \in SeqsUpTo(CsvRows, MaxRerunRecords)}

\* A run that adds to buckets kept from the previous run.
RunApi_KeepsBuckets ==
    /\ Len(history) < MaxRuns
    /\ call' = "calculate_metrics_from_api"
    /\ ret' = calculate_metrics_from_api(
                  IF HasRecords(api_data) /\ history # <<>>
                  THEN WithRecords("calculate_metrics_from_api", api_data,
                                   RecordsOf("calculate_metrics_from_api", api_data)
                                       \o RecordsOf("calculate_metrics_from_api", api_data))
                  ELSE api_data)
    /\ history' = Append(history, [call |-> call', input |-> api_data, ret |-> ret'])
    /\ UNCHANGED <<product, args, api_data, df, products, api_metrics, csv_metrics, ioVars>>

RunApi ==
    /\ Len(history) < MaxRuns
    /\ call' = "calculate_metrics_from_api"
    /\ ret' = calculate_metrics_from_api(api_data)
    /\ history' = Append(history, [call |-> call', input |-> api_data, ret |-> ret'])
    /\ UNCHANGED <<product, args, api_data, df, products, api_metrics, csv_metrics, ioVars>>

RunCsv ==
    /\ Len(history) < MaxRuns
    /\ call' = "calculate_metrics_from_csv"
    /\ ret' = calculate_metrics_from_csv(df)
    /\ history' = Append(history, [call |-> call', input |-> df, ret |-> ret'])
    /\ UNCHANGED <<product, args, api_data, df, products, api_metrics, csv_metrics, ioVars>>

NextRerun == RunApi \/ RunCsv

SpecRerun == InitRerun /\ [][NextRerun]_vars

NumericFields(path) ==
    IF path = "calculate_metrics_from_api" THEN {"quantity", "ppvz_for_pay"} ELSE {9, 48}

\* A numeric field that is absent, null, or text holding no digit.
BadNumber(rec, k) ==
    \/ k \notin DOMAIN rec
    \/ rec[k].t \in {"None", "nan"}
    \/ rec[k].t = "str" /\ \A c \in 1..Len(rec[k].s) : ~IsDigit(rec[k].s[c])

MissingId(path, rec) == IdOf(path, rec).t \in {"None", "nan"}

ValidRecord(path, rec) ==
    /\ Resolvable(IdOf(path, rec))
    /\ \A k \in NumericFields(path) : ~BadNumber(rec, k)

MalformedRecord(path, rec) ==
    \/ MissingId(path, rec)
    \/ \E k \in NumericFields(path) : BadNumber(rec, k)

\* The record with every bad numeric field replaced by zero.
Zeroed(path, rec) ==
    [k \in DOMAIN rec \cup NumericFields(path) |->
        IF k \in NumericFields(path) /\ BadNumber(rec, k) THEN PyInt(0) ELSE rec[k]]

Skipping(records, i) == SubSeq(records, 1, i - 1) \o SubSeq(records, i + 1, Len(records))

Replacing(records, i, rec) == [records EXCEPT ![i] = rec]

\* A batch of well-shaped records (all 49 columns on the CSV path).
WellShaped(path, input) ==
    IF path = "calculate_metrics_from_api" THEN HasRecords(input) ELSE input.ncols > 48

\* C13: on both paths, when one record of the batch is malformed (identifier
\* missing, or a numeric field absent, null or unparsable) and the others are
\* valid, the aggregator returns without raising, and returns what it returns
\* for the batch without that record or with its bad values replaced by zero.
C13_MalformedRecordTolerated ==
    (call \in AggCalls /\ WellShaped(call, InputOf(call))) =>
        LET input == InputOf(call)
            records == RecordsOf(call, input)
        IN  \A i \in 1..Len(records) :
                (/\ MalformedRecord(call, records[i])
                 /\ \A j \in 1..Len(records) \ {i} : ValidRecord(call, records[j]))
                => /\ ret.exc = "none"
                   /\ \/ View(ret) = View(Aggregate(call,
                             WithRecords(call, input, Skipping(records, i))))
                      \/ View(ret) = View(Aggregate(call,
                             WithRecords(call, input,
                                 Replacing(records, i, Zeroed(call, records[i])))))

\* The readable reports none of whose records has a usable identifier.
ReadableWithoutValid ==
    {d \in {ApiReport(r) : r \in SeqsUpTo(ApiRows, MaxRecords)} :
        UsableRecords("calculate_metrics_from_api", d) = <<>>}

\* C14: when api_data is unusable (no reportDetail entry, an entry whose status
\* is not success, or one without a readable list of records), the call ends
\* in a failure raised to the caller, and never in the result returned for a
\* readable report with zero valid records.
C14_UnusableInputSurfaced ==
    (call = "calculate_metrics_from_api" /\ ~HasRecords(api_data)) =>
        /\ ret.exc # "none"
        /\ \A d \in ReadableWithoutValid : ret # calculate_metrics_from_api(d)

\* C15: the three sets compare_metrics computes from the identifier sets A and
\* B of the two aggregates are common = A & B, only_api = A - B and
\* only_csv = B - A; they are pairwise disjoint and their union is A | B.
C15_SetsPartitionUnion ==
    (/\ call = "compare_metrics"
     /\ "by_article" \in DOMAIN api_metrics
     /\ "by_article" \in DOMAIN csv_metrics) =>
        LET A == ArticleKeys(api_metrics)
            B == ArticleKeys(csv_metrics)
            c == ret.val
        IN  /\ ret.exc = "none"
            /\ c.common = A \cap B
            /\ c.only_api = A \ B
            /\ c.only_csv = B \ A
            /\ c.common \cup c.only_api \cup c.only_csv = A \cup B
            /\ c.common \cap c.only_api = {}
            /\ c.common \cap c.only_csv = {}
            /\ c.only_api \cap c.only_csv = {}
            /\ \A k \in A \cup B :
                   Cardinality({S \in {"common", "only_api", "only_csv"} : k \in c[S]}) = 1

C15_Witness ==
    /\ call = "compare_metrics"
    /\ ret.exc = "none"
    /\ ret.val.by_article
    /\ ret.val.common # {}
    /\ ret.val.only_api # {}
    /\ ret.val.only_csv # {}

\* The totals compare_metrics passes on for the n-th name: the value of the
\* key, 0 for an absent key.
ApiTotal(n) == dict_get(api_metrics, TotalNames[n], PyInt(0))

CsvTotal(n) == dict_get(csv_metrics, TotalNames[n], PyInt(0))

\* C16: for each of the three totals, with a from the API aggregate and b from
\* the CSV aggregate (0 for a total the aggregate lacks), _compare_value
\* computes diff = a - b, and diff_pct = diff / b * 100 when b # 0 and 0 when
\* b = 0.
C16_DiffAndPercent ==
    call = "compare_metrics" =>
        /\ ret.exc = "none"
        /\ \A n \in 1..Len(TotalNames) :
               LET a == ApiTotal(n)
                   b == CsvTotal(n)
                   v == ret.val.values[n]
               IN  /\ (a.t = "int" /\ b.t = "int") => v.diff = PyInt(a.i - b.i)
                   /\ ~(a.t = "int" /\ b.t = "int")
                         => v.diff = PyFloat(FloatSub(NumOf(a), NumOf(b)))
                   /\ TotalNames[n] \notin DOMAIN api_metrics
                         => FloatCmp(NumOf(v.diff), FloatNeg(NumOf(b))) = 0
                   /\ TotalNames[n] \notin DOMAIN csv_metrics => v.diff = a
                   /\ NumOf(b) = Zero => v.diff_pct = PyInt(0)
                   /\ NumOf(b) # Zero
                         => /\ v.diff_pct.t = "float"
                            /\ WithinRounding(v.diff_pct.f, NumOf(v.diff), NumOf(b))

C16_Witness ==
    /\ call = "compare_metrics"
    /\ ret.exc = "none"
    /\ api_metrics = EmptyDict
    /\ CsvTotal(1) = PyInt(1)
    /\ ret.val.values[1].diff = PyInt(-1)
    /\ ret.val.values[1].diff_pct = PyFloat(FloatOfInt(-100))
    /\ CsvTotal(2) = PyFloat(Zero)
    /\ ret.val.values[2].diff_pct = PyInt(0)

\* C17: _compare_value flags a total exactly when abs(diff_pct) >= 5: 105
\* against 100 has diff_pct 5.0 and is flagged, 102 against 100 has 2.0 and is
\* not, and two pairs whose diff_pct differ only in sign get the same flag.
C17_FlaggedFromFivePercent ==
    call = "_compare_value" =>
        LET v == ret.val
        IN  /\ ret.exc = "none"
            /\ v.status \in {"ok", "warn"}
            /\ v.status = "warn" <=> FloatCmp(FloatAbs(NumOf(v.diff_pct)), FloatOfInt(5)) >= 0
            /\ (args.a = PyInt(105) /\ args.b = PyInt(100))
                  => v.diff_pct = PyFloat(FloatOfInt(5)) /\ v.status = "warn"
            /\ (args.a = PyInt(102) /\ args.b = PyInt(100))
                  => v.diff_pct = PyFloat(FloatOfInt(2)) /\ v.status = "ok"
            /\ \A a2, b2 \in CompareValues :
                   LET w == _compare_value(a2, b2).val
                   IN  NumOf(w.diff_pct) = FloatNeg(NumOf(v.diff_pct)) => w.status = v.status

C17_Witness ==
    /\ call = "_compare_value"
    /\ args.a = PyInt(95)
    /\ args.b = PyInt(100)
    /\ ret = Return([diff |-> PyInt(-5), diff_pct |-> PyFloat(FloatOfInt(-5)), status |-> "warn"])

\* The keys under which a report would hold the identifier sets.
SetKeys == {"common", "only_api", "only_csv"}

\* C18: the report save_comparison_report builds holds the two aggregates with
\* their totals, the three diffs (API total minus CSV total) for the product
\* count, the quantity and the amount, and the counts and previews of the
\* common, only-API and only-CSV identifier sets.
C18_ReportStructure ==
    call = "save_comparison_report" =>
        /\ ret.exc = "none"
        /\ ret.val.api_metrics = api_metrics
        /\ ret.val.csv_metrics = csv_metrics
        /\ ret.val.comparison.articles_diff = PySub(ApiTotal(1), CsvTotal(1)).val
        /\ ret.val.comparison.quantity_diff = PySub(ApiTotal(2), CsvTotal(2)).val
        /\ ret.val.comparison.to_pay_diff = PySub(ApiTotal(3), CsvTotal(3)).val
        /\ SetKeys \subseteq DOMAIN ret.val \cup DOMAIN ret.val.comparison

\* C19 as stated: the key set of every to_dict is product_id, product_name, ...
C19_Original ==
    call = "export_to_csv" =>
        /\ ret.exc = "none"
        /\ \A i \in 1..Len(ret.val.rows) :
               DOMAIN ret.val.rows[i] = (SummaryKeys \ {"nm_id"}) \cup {"product_id"}

\* C19 as amended: for every ProductMetrics, to_dict has exactly the keys
\* nm_id, product_name, sales, returns, net_sales, revenue, cogs,
\* gross_profit, total_expenses, net_profit, profit_margin_percent,
\* roi_percent, avg_check, whatever the field values; so the header
\* export_to_csv takes from the first dict is the key set of every row.
C19_FixedKeySet ==
    /\ call = "process_products"
          => /\ ret.exc = "none"
             /\ \A i \in 1..Len(ret.val) : DOMAIN to_dict(ret.val[i]) = SummaryKeys
    /\ call = "export_to_csv"
          => /\ ret.exc = "none"
             /\ ret.val.written <=> products # <<>>
             /\ Len(ret.val.rows) = Len(products)
             /\ \A i \in 1..Len(ret.val.rows) :
                    /\ DOMAIN ret.val.rows[i] = ret.val.fieldnames
                    /\ DOMAIN ret.val.rows[i] = SummaryKeys
                    /\ Cardinality(DOMAIN ret.val.rows[i]) = 13

C19_Witness ==
    /\ call = "export_to_csv"
    /\ ret.exc = "none"
    /\ Len(ret.val.rows) = 2
    /\ ret.val.rows[1].profit_margin_percent = Zero
    /\ ret.val.rows[2].profit_margin_percent = FloatOfInt(20)
    /\ ret.val.rows[2].roi_percent = Dec(6, 100)
    /\ ret.val.rows[1].nm_id # ret.val.rows[2].nm_id
    /\ ret.val.fieldnames = DOMAIN ret.val.rows[2]

ENDPOINTS ==
    [reportDetail |-> [name |-> "Sales report (v5)"],
     sales |-> [name |-> "Sales and returns"],
     orders |-> [name |-> "Orders"],
     stocks |-> [name |-> "Warehouse stocks"],
     incomes |-> [name |-> "Supplies"],
     antifraud |-> [name |-> "Self-purchases (30%)"],
     penalties |-> [name |-> "Dimensions/penalties"],
     balance |-> [name |-> "Seller balance"],
     region_sales |-> [name |-> "Sales by region"],
     excise |-> [name |-> "Marked goods"]]

Response(exc, message, status, json, text) ==
    [exc |-> exc, message |-> message, status |-> status, json |-> json, text |-> text]

PyDict(d) == [t |-> "dict", d |-> d]

\* len(data) if isinstance(data, list) else 1
CountOf(data) == IF data.t = "list" THEN Len(data.items) ELSE 1

\* The body of the try block: the 200 branch and the other branch.
ReadResponse(report_key, response) ==
    IF response.exc # "none" THEN Raise(response.exc)
    ELSE IF response.status = 200
    THEN IF response.json.exc # "none" THEN Raise(response.json.exc)
         ELSE Return([name |-> ENDPOINTS[report_key].name, status |-> "success",
                      count |-> CountOf(response.json.val), data |-> response.json.val])
    ELSE Return([name |-> ENDPOINTS[report_key].name, status |-> "error",
                 http_code |-> response.status,
                 error |-> IF response.text # <<>> THEN response.text
                           ELSE <<"H", "T", "T", "P", " ">> \o NatToStr(response.status)])

\* "Unknown report type"
UnknownReportType ==
    <<"U", "n", "k", "n", "o", "w", "n", " ", "r", "e", "p", "o", "r", "t", " ", "t", "y", "p", "e">>

_fetch_report_NoExcept(report_key, response) ==
    IF report_key \notin DOMAIN ENDPOINTS
    THEN Return(<<report_key, [error |-> UnknownReportType]>>)
    ELSE IF ReadResponse(report_key, response).exc # "none"
    THEN Raise(ReadResponse(report_key, response).exc)
    ELSE Return(<<report_key, ReadResponse(report_key, response).val>>)

\* The pair (report_key, entry) one coroutine returns.
_fetch_report(report_key, response) ==
    IF report_key \notin DOMAIN ENDPOINTS
    THEN Return(<<report_key, [error |-> UnknownReportType]>>)
    ELSE IF ReadResponse(report_key, response).exc # "none"
    THEN Return(<<report_key, [name |-> ENDPOINTS[report_key].name, status |-> "error",
                               error |-> response.message]>>)
    ELSE Return(<<report_key, ReadResponse(report_key, response).val>>)

\* dict(pairs): the last pair of a key is the one kept.
dict(pairs) ==
    [k \in {pairs[i][1] : i \in 1..Len(pairs)} |->
        pairs[CHOOSE i \in 1..Len(pairs) :
                  pairs[i][1] = k /\ \A j \in (i + 1)..Len(pairs) : pairs[j][1] # k][2]]

\* await asyncio.gather(*tasks): the results in the order of the tasks, or
\* the exception of a task that raised.
Done(ts) == \A i \in 1..Len(ts) : ts[i].state = "done"

Raised(ts) == \E i \in 1..Len(ts) : ts[i].state = "done" /\ ts[i].result.exc # "none"

gather(ts) ==
    IF Raised(ts)
    THEN Raise(ts[CHOOSE i \in 1..Len(ts) : ts[i].state = "done" /\ ts[i].result.exc # "none"
                      /\ \A j \in 1..Len(ts) :
                             (ts[j].state = "done" /\ ts[j].result.exc # "none")
                                 => ts[i].order <= ts[j].order].result.exc)
    ELSE Return([i \in 1..Len(ts) |-> ts[i].result.val])

MaxKeys == 2

ReportKeys == {"reportDetail", "sales", "unknown_report"}

Payloads ==
    {PyList(<<>>),
     PyList(<<ApiRow(PyInt(7), PyInt(1), PyInt(10)), ApiRow(PyInt(7), PyInt(2), PyInt(5))>>),
     PyDict([balance |-> PyInt(100)])}

Responses ==
    {Response("none", <<>>, 200, Return(p), <<>>) : p \in Payloads}
        \cup {Response("none", <<"m", "i", "m", "e">>, 200, Raise("ContentTypeError"), <<>>),
              Response("none", <<>>, 401, Return(PyNone), <<"n", "o">>),
              Response("none", <<>>, 500, Return(PyNone), <<>>),
              Response("TimeoutError", <<>>, 0, Return(PyNone), <<>>),
              Response("ClientConnectorError", <<"d", "o", "w", "n">>, 0, Return(PyNone), <<>>)}

Awaiting == [exc |-> "awaiting", val |-> Zero]

NoResponse == Response("none", <<>>, 0, Return(PyNone), <<>>)

\* A coroutine: its key, the response its request was given, the position
\* at which it completed and what it returned.
NewTask(report_key) == [report_key |-> report_key, state |-> "pending", order |-> 0,
                        response |-> NoResponse, result |-> Awaiting]

\* fetch_multiple_reports up to the await: one coroutine per requested key.
FetchMultipleReports(report_keys) ==
    /\ call = "none"
    /\ call' = "fetch_multiple_reports"
    /\ args' = [report_keys |-> report_keys]
    /\ tasks' = [i \in 1..Len(report_keys) |-> NewTask(report_keys[i])]
    /\ ret' = Awaiting
    /\ UNCHANGED <<product, api_data, df, callerVars, heap>>

Completed(ts) == Cardinality({i \in 1..Len(ts) : ts[i].state = "done"})

\* One coroutine runs to its return, in any order among the pending ones.
FetchReport(i, response) ==
    /\ call = "fetch_multiple_reports"
    /\ ret = Awaiting
    /\ tasks[i].state = "pending"
    /\ tasks' = [tasks EXCEPT ![i] = [report_key |-> tasks[i].report_key, state |-> "done",
                                      order |-> Completed(tasks) + 1,
                                      response |-> response,
                                      result |-> _fetch_report(tasks[i].report_key, response)]]
    /\ UNCHANGED <<product, call, args, ret, api_data, df, callerVars, heap>>

\* gather is over: fetch_multiple_reports returns dict(results), which the
\* caller keeps as api_data.
ReturnReports ==
    /\ call = "fetch_multiple_reports"
    /\ ret = Awaiting
    /\ Done(tasks) \/ Raised(tasks)
    /\ ret' = IF gather(tasks).exc # "none" THEN gather(tasks)
              ELSE Return(dict(gather(tasks).val))
    /\ api_data' = IF ret'.exc = "none" THEN ret'.val ELSE api_data
    /\ UNCHANGED <<product, call, args, df, callerVars, tasks, heap>>

NextFetch ==
    \/ \E report_keys \in SeqsUpTo(ReportKeys, MaxKeys) : FetchMultipleReports(report_keys)
    \/ \E i \in 1..Len(tasks) : \E response \in Responses : FetchReport(i, response)
    \/ ReturnReports

\* The event loop runs every coroutine that can run, and every request ends
\* (timeout=60): a pending fetch completes, and a finished gather returns.
SpecFetch ==
    /\ Init
    /\ [][NextFetch]_vars
    /\ WF_vars(\E i \in 1..Len(tasks) : \E response \in Responses : FetchReport(i, response))
    /\ WF_vars(ReturnReports)

\* C21: the mapping fetch_multiple_reports returns has, for each requested
\* key, an entry with a status field and either a data payload (status
\* success) or an error (status error).
C21_EntryHasStatus ==
    (call = "fetch_multiple_reports" /\ ret.exc = "none")
        => \A i \in 1..Len(args.report_keys) :
               /\ args.report_keys[i] \in DOMAIN ret.val
               /\ "status" \in DOMAIN ret.val[args.report_keys[i]]
               /\ \/ /\ ret.val[args.report_keys[i]].status = "success"
                     /\ "data" \in DOMAIN ret.val[args.report_keys[i]]
                  \/ /\ ret.val[args.report_keys[i]].status = "error"
                     /\ "error" \in DOMAIN ret.val[args.report_keys[i]]

\* A fetch that did not bring a payload: an unknown key, an exception or a
\* timeout, a non-200 response, a body that is not JSON.
Failed(task) ==
    \/ task.report_key \notin DOMAIN ENDPOINTS
    \/ task.response.exc # "none"
    \/ task.response.status # 200
    \/ task.response.json.exc # "none"

\* The entry a fetch leaves: a success carries the payload it was given and
\* no error, a failure carries an error and no payload.
EntryOf(entry, task) ==
    IF Failed(task)
    THEN "error" \in DOMAIN entry /\ "data" \notin DOMAIN entry
    ELSE /\ "error" \notin DOMAIN entry
         /\ "data" \in DOMAIN entry
         /\ entry.data = task.response.json.val

FetchReturned ==
    /\ call = "fetch_multiple_reports"
    /\ ret.exc = "none"
    /\ DOMAIN ret.val = {args.report_keys[i] : i \in 1..Len(args.report_keys)}
    /\ \A k \in DOMAIN ret.val :
           \E i \in 1..Len(tasks) : tasks[i].report_key = k /\ EntryOf(ret.val[k], tasks[i])

\* C30: whatever the order in which the fetches complete and whatever their
\* outcomes, fetch_multiple_reports eventually returns, without raising, a
\* mapping with exactly one entry per distinct requested key; the entry of a
\* key is the one a fetch of that key left, so a failed fetch leaves an error
\* entry under its own key and changes the entry of no other key.
C30_FanOutReturns ==
    /\ [](call = "fetch_multiple_reports" /\ ret.exc # "awaiting" => FetchReturned)
    /\ (call = "fetch_multiple_reports") ~> FetchReturned

\* Two fetches of different keys, the second completing first and failing,
\* the first succeeding.
C30_Witness ==
    /\ FetchReturned
    /\ Len(tasks) = 2
    /\ tasks[1].report_key = "reportDetail"
    /\ tasks[2].report_key = "sales"
    /\ tasks[2].order = 1
    /\ tasks[1].order = 2
    /\ tasks[2].response.exc = "TimeoutError"
    /\ ret.val["sales"].status = "error"
    /\ ret.val["sales"].error = <<>>
    /\ ret.val["reportDetail"].status = "success"
    /\ ret.val["reportDetail"].count = 2

\* ---------------------------------------------------------------------
\* Reads of the derived properties of one Product between assignments to
\* its fields (a dataclass instance is mutable); history keeps each access
\* with the Product as it was left.
\* ---------------------------------------------------------------------
MaxAccesses == 3

VolumeFields == {"deliveries", "refusals", "sales", "returns"}

Volumes == {0, 1, 3, 7}

\* product.<field> = n
SetField(field, n) ==
    /\ Len(history) < MaxAccesses
    /\ call' = "setattr"
    /\ args' = NoArgs
    /\ ret' = Return(Zero)
    /\ product' = [product EXCEPT ![field] = n]
    /\ history' = Append(history, [call |-> "setattr", product |-> product', ret |-> ret'])
    /\ UNCHANGED <<api_data, df, products, api_metrics, csv_metrics, ioVars>>

PropertyOf(name, p) ==
    IF name = "percent_refusals" THEN percent_refusals(p) ELSE percent_returns(p)

\* A property that keeps the value of its first read on the object.
ReadProperty_Stored(name) ==
    /\ Len(history) < MaxAccesses
    /\ call' = name
    /\ args' = NoArgs
    /\ ret' = IF \E i \in 1..Len(history) : history[i].call = name
              THEN history[CHOOSE i \in 1..Len(history) : history[i].call = name].ret
              ELSE PropertyOf(name, product)
    /\ history' = Append(history, [call |-> name, product |-> product, ret |-> ret'])
    /\ UNCHANGED <<product, api_data, df, products, api_metrics, csv_metrics, ioVars>>

\* product.percent_refusals, product.percent_returns
ReadProperty(name) ==
    /\ Len(history) < MaxAccesses
    /\ call' = name
    /\ args' = NoArgs
    /\ ret' = PropertyOf(name, product)
    /\ history' = Append(history, [call |-> name, product |-> product, ret |-> ret'])
    /\ UNCHANGED <<product, api_data, df, products, api_metrics, csv_metrics, ioVars>>

NextRates ==
    \/ \E field \in VolumeFields : \E n \in Volumes : SetField(field, n)
    \/ \E name \in {"percent_refusals", "percent_returns"} : ReadProperty(name)

\* A Product as constructed with its defaults, and one with volumes.
InitRates ==
    /\ product \in {Product(123),
                     [Product(123) EXCEPT !.deliveries = 3, !.refusals = 1,
                                          !.sales = 7, !.returns = 1]}
    /\ call = "none"
    /\ args = NoArgs
    /\ ret = Return(Zero)
    /\ AggIdle
    /\ CallerIdle
    /\ IoIdle

SpecRates == InitRates /\ [][NextRates]_vars

DerivedFields == {"net_sales", "percent_refusals", "percent_returns"}

Ratio(n, d) == FloatDiv(FloatOfInt(n), FloatOfInt(d))

\* C22 as stated: every read gives refusals / deliveries (returns / sales),
\* and 0 without deliveries (sales), of the field values at the read.
C22_Original ==
    \A i \in 1..Len(history) :
        /\ history[i].call = "percent_refusals"
               => history[i].ret = Return(IF history[i].product.deliveries = 0 THEN Zero
                                          ELSE Ratio(history[i].product.refusals,
                                                     history[i].product.deliveries))
        /\ history[i].call = "percent_returns"
               => history[i].ret = Return(IF history[i].product.sales = 0 THEN Zero
                                          ELSE Ratio(history[i].product.returns,
                                                     history[i].product.sales))

\* C22 (amended): every read of percent_refusals gives the percentage
\* (refusals / deliveries) * 100 of the field values the Product has at that
\* read, and 0 without deliveries; every read of percent_returns gives
\* (returns / sales) * 100, and 0 without sales; no derived value is a field
\* of the Product.
C22_PercentOnRead ==
    /\ DOMAIN product \cap DerivedFields = {}
    /\ \A i \in 1..Len(history) :
           /\ history[i].call = "percent_refusals"
                  => history[i].ret =
                         Return(IF history[i].product.deliveries = 0 THEN Zero
                                ELSE FloatMul(Ratio(history[i].product.refusals,
                                                    history[i].product.deliveries),
                                              FloatOfInt(100)))
           /\ history[i].call = "percent_returns"
                  => history[i].ret =
                         Return(IF history[i].product.sales = 0 THEN Zero
                                ELSE FloatMul(Ratio(history[i].product.returns,
                                                    history[i].product.sales),
                                              FloatOfInt(100)))
    /\ history # <<>> /\ call \in DerivedFields
           => ret = PropertyOf(call, product) /\ history[Len(history)].ret = ret

\* Two reads of percent_refusals of one Product around an assignment:
\* (1 / 3) * 100, then 0.0 once the deliveries are set to 0.
C22_Witness ==
    /\ Len(history) = 3
    /\ history[1].call = "percent_refusals"
    /\ history[2].call = "setattr"
    /\ history[3].call = "percent_refusals"
    /\ history[1].product.deliveries = 3
    /\ history[1].product.refusals = 1
    /\ history[1].ret # Return(Ratio(1, 3))
    /\ FloatCmp(history[1].ret.val, FloatOfInt(33)) > 0
    /\ FloatCmp(history[1].ret.val, FloatOfInt(34)) < 0
    /\ history[3].product.deliveries = 0
    /\ history[3].product.refusals = 1
    /\ history[3].ret = Return(Zero)

\* ---------------------------------------------------------------------
\* The coercion of raw cells: _safe_float on one value, and
\* calculate_metrics_from_csv on a frame of one row whose quantity and
\* amount cells are decorated numbers.
\* ---------------------------------------------------------------------
MaxCellLen == 3

CellChars == {"1", "5", ".", ",", " ", "-", "₽", "%", "x", "n", "a"}

\* Missing values, numbers, and every string of up to MaxCellLen characters.
CoerceValues ==
    {PyNone, PyNaN, PyInt(0), PyInt(-4), PyFloat(Dec(25, 10))}
        \cup {PyStr(s) : s \in SeqsUpTo(CellChars, MaxCellLen)}

\* "1 234", "1,234", "1,234.5", "12%", "5 ₽", " 7 ", "2.5"
DecoratedCells ==
    {PyStr(<<"1", " ", "2", "3", "4">>),
     PyStr(<<"1", ",", "2", "3", "4">>),
     PyStr(<<"1", ",", "2", "3", "4", ".", "5">>),
     PyStr(<<"1", "2", "%">>),
     PyStr(<<"5", " ", "₽">>),
     PyStr(<<" ", "7", " ">>),
     PyStr(<<"2", ".", "5">>)}

DecoratedFrames ==
    {Frame(49, <<CsvRow(PyStr(<<"A">>), c9, c48)>>) : c9, c48 \in DecoratedCells}

SafeFloat(value) ==
    /\ call = "none"
    /\ call' = "_safe_float"
    /\ args' = [value |-> value]
    /\ ret' = _safe_float(value)
    /\ UNCHANGED <<product, api_data, df, callerVars, ioVars>>

NextCoerce ==
    \/ \E value \in CoerceValues \cup DecoratedCells : SafeFloat(value)
    \/ \E f \in DecoratedFrames : CalculateMetricsFromCsv(f)

SpecCoerce == Init /\ [][NextCoerce]_vars

\* A decimal numeral: an optional sign, digits with at most one point, at
\* least one digit.
Unsigned(s) == IF s # <<>> /\ s[1] \in {"+", "-"} THEN Tail(s) ELSE s

Numeral(s) ==
    /\ \A i \in 1..Len(Unsigned(s)) : IsDigit(Unsigned(s)[i]) \/ Unsigned(s)[i] = "."
    /\ Cardinality({i \in 1..Len(Unsigned(s)) : Unsigned(s)[i] = "."}) <= 1
    /\ \E i \in 1..Len(Unsigned(s)) : IsDigit(Unsigned(s)[i])

\* Whitespace, thousands separators, the currency symbol, the percent sign.
Decoration == {" ", ",", "₽", "%"}

Undecorated(s) == SelectSeq(s, LAMBDA c : c \notin Decoration)

\* A value _safe_float cannot read a number from: a missing one, or a string
\* that is no numeral once the characters the code drops or replaces are
\* dropped or replaced.
Unparsable(value) ==
    \/ isna(value)
    \/ /\ value.t = "str"
       /\ ~Numeral(replace(SelectSeq(value.s, LAMBDA c : c \notin {" ", "₽", "%"}), ",", <<".">>))

\* C23: _safe_float never raises and returns a number for every missing
\* value, number and string, and returns 0.0 for every missing or unparsable
\* value.
C23_SafeFloatTotal ==
    call = "_safe_float"
        => /\ ret.exc = "none"
           /\ IsNumber(ret.val)
           /\ Unparsable(args.value) => ret.val = PyFloat(Zero)

\* A decorated number, and the number written in it: the numeral left once
\* the decoration is removed. A comma is a thousands separator when it
\* stands between a digit and a group of three digits.
GroupingComma(s, i) ==
    /\ i > 1 /\ IsDigit(s[i - 1])
    /\ i + 3 <= Len(s)
    /\ \A j \in (i + 1)..(i + 3) : IsDigit(s[j])
    /\ i + 3 = Len(s) \/ ~IsDigit(s[i + 4])

Decorated(value) ==
    /\ value.t = "str"
    /\ \A i \in 1..Len(value.s) : value.s[i] = "," => GroupingComma(value.s, i)
    /\ Numeral(Undecorated(value.s))

Written(value) == float_of_str(Undecorated(value.s)).val

\* C24: for every string that is a decimal number decorated with whitespace,
\* thousands separators, a currency symbol or a percent sign, _safe_float
\* returns the number left once those characters are removed, and the
\* quantity and amount payable coerced from a CSV row are the numbers written
\* in its cells.
C24_DecorationStripped ==
    /\ (call = "_safe_float" /\ Decorated(args.value))
           => ret = Return(Written(args.value))
    /\ (call = "calculate_metrics_from_csv" /\ df.rows # <<>>
            /\ Decorated(df.rows[1][9]) /\ Decorated(df.rows[1][48]))
           => /\ ret.exc = "none"
              /\ ret.val.by_article[1].quantity = Written(df.rows[1][9])
              /\ ret.val.by_article[1].to_pay = Written(df.rows[1][48])

\* ---------------------------------------------------------------------
\* data/loader.py and the identity of ManualInputData objects.
\* heap holds the ManualInputData objects; a Product of `products` holds in
\* manual_data the position of its object in heap, so that two Products may
\* or may not hold the same object. history keeps, per Product, how it was
\* constructed. The Russian column names are transliterated.
\* ---------------------------------------------------------------------
\* int(s) of a str: surrounding whitespace is dropped, then an optional sign
\* and digits.
int_of_str(s0) ==
    IF Unsigned(strip(s0)) # <<>> /\ AllDigits(Unsigned(strip(s0)))
    THEN Return(IF strip(s0)[1] = "-" THEN -DigitsToNat(Unsigned(strip(s0)))
                ELSE DigitsToNat(Unsigned(strip(s0))))
    ELSE Raise("ValueError")

\* The integer part of a float of small magnitude, towards zero.
Trunc(x) == IF x.e >= 0 THEN IntOf(x) ELSE x.sg * BLimb(BShr(x.m, -x.e), 1)

\* int(v)
py_int(v) ==
    CASE v.t = "int" -> Return(v.i)
      [] v.t = "float" -> Return(Trunc(v.f))
      [] v.t = "str" -> int_of_str(v.s)
      [] v.t = "nan" -> Raise("ValueError")
      [] OTHER -> Raise("TypeError")

\* int(row.get(key, row.get(other, 0)))
IntColumn(row, key, other) == py_int(dict_get(row, key, dict_get(row, other, PyInt(0))))

\* float(row.get(key, 0)); the rows of the model hold no NaN.
FloatValue(r) == IF r.exc # "none" THEN r ELSE Return(r.val.f)

FloatColumn(row, key) == FloatValue(py_float(dict_get(row, key, PyInt(0))))

\* The keys of the float columns, in the order of the keyword arguments.
FloatKeys ==
    <<"sales_before_spp", "sales_after_spp", "returns_amount", "logistics", "storage",
      "acceptance", "penalty", "surcharges", "commission_with_spp",
      "commission_without_spp", "drr">>

\* The keyword arguments of Product(...) in the order they are evaluated.
ProductColumns(row) ==
    <<IntColumn(row, "nm_id", "nmId"),
      Return(dict_get(row, "product_name", dict_get(row, "sa_name", ""))),
      IntColumn(row, "deliveries", "Dostavki"),
      IntColumn(row, "sales", "Prodazhi"),
      IntColumn(row, "returns", "Vozvraty"),
      IntColumn(row, "refusals", "Otkazy")>>
    \o [i \in 1..Len(FloatKeys) |-> FloatColumn(row, FloatKeys[i])]

ProductOf(c, manual_data) ==
    [nm_id |-> c[1].val, product_name |-> c[2].val,
     deliveries |-> c[3].val, sales |-> c[4].val, returns |-> c[5].val,
     refusals |-> c[6].val,
     sales_amount_before_spp |-> c[7].val, sales_amount_after_spp |-> c[8].val,
     returns_amount |-> c[9].val,
     logistics_cost |-> c[10].val, storage_cost |-> c[11].val,
     acceptance_cost |-> c[12].val, penalty_cost |-> c[13].val, surcharges |-> c[14].val,
     commission_with_spp |-> c[15].val, commission_without_spp |-> c[16].val,
     drr_cost |-> c[17].val,
     manual_data |-> manual_data]

\* ManualInputData(): a new object, at a position no Product holds yet.
NewObject(heap_) == Len(heap_) + 1

Allocated(heap_, ref) == IF ref > Len(heap_) THEN Append(heap_, ManualInputData) ELSE heap_

\* parse_wb_csv_to_product(row, manual_data): manual_data is 0 for None,
\* else the position of the object given. A ManualInputData object is
\* truthy, so `manual_data or ManualInputData()` makes a new object only for
\* None.
ProductCall(c, manual_data, heap_) ==
    IF \E i \in 1..Len(c) : c[i].exc # "none" THEN Raise(FirstRaised(c).exc)
    ELSE Return(ProductOf(c, IF manual_data # 0 THEN manual_data ELSE NewObject(heap_)))

parse_wb_csv_to_product(row, manual_data, heap_) ==
    ProductCall(ProductColumns(row), manual_data, heap_)

\* The Product with its ManualInputData in place of the reference.
Deref(p, heap_) == [p EXCEPT !.manual_data = heap_[p.manual_data]]

MaxInstances == 2

LoaderRows ==
    {[nm_id |-> PyInt(7), sales |-> PyStr(<<"5">>), returns |-> PyInt(1),
      sales_after_spp |-> PyStr(<<"1", "0", "0", ".", "5">>), logistics |-> PyInt(20)],
     [nmId |-> PyStr(<<" ", "8">>), Prodazhi |-> PyFloat(Dec(39, 10)), Dostavki |-> PyInt(4),
      sales_after_spp |-> PyInt(300)],
     [nm_id |-> PyInt(9), sales |-> PyStr(<<"x">>)],
     [nm_id |-> PyInt(9), drr |-> PyNone]}

ManualFields == {"cost_per_unit", "self_purchase_count"}

ManualValues == [cost_per_unit |-> {Dec(25, 10)}, self_purchase_count |-> {1}]

Constructed(by, explicit) == [call |-> by, explicit |-> explicit]

\* A class whose default is one object made at class definition.
NewProduct_SharedDefault(nm_id) ==
    /\ Len(products) < MaxInstances
    /\ call' = "Product"
    /\ args' = NoArgs
    /\ ret' = Return(Zero)
    /\ heap' = Allocated(heap, 1)
    /\ products' = Append(products, [Product(nm_id) EXCEPT !.manual_data = 1])
    /\ history' = Append(history, Constructed("Product", FALSE))
    /\ UNCHANGED <<product, api_data, df, api_metrics, csv_metrics, tasks>>

\* Product(nm_id): default_factory makes the ManualInputData.
NewProduct(nm_id) ==
    /\ Len(products) < MaxInstances
    /\ call' = "Product"
    /\ args' = NoArgs
    /\ ret' = Return(Zero)
    /\ heap' = Allocated(heap, NewObject(heap))
    /\ products' = Append(products, [Product(nm_id) EXCEPT !.manual_data = NewObject(heap)])
    /\ history' = Append(history, Constructed("Product", FALSE))
    /\ UNCHANGED <<product, api_data, df, api_metrics, csv_metrics, tasks>>

\* DataLoader.parse_wb_csv_to_product(row) and (row, manual_data), the
\* object given being one some Product holds already.
ParseWbCsvToProduct(row, manual_data) ==
    /\ Len(products) < MaxInstances
    /\ call' = "parse_wb_csv_to_product"
    /\ args' = NoArgs
    /\ ret' = parse_wb_csv_to_product(row, manual_data, heap)
    /\ IF ret'.exc # "none" THEN UNCHANGED <<heap, products, history>>
       ELSE /\ heap' = Allocated(heap, ret'.val.manual_data)
            /\ products' = Append(products, ret'.val)
            /\ history' = Append(history,
                                 Constructed("parse_wb_csv_to_product", manual_data # 0))
    /\ UNCHANGED <<product, api_data, df, api_metrics, csv_metrics, tasks>>

\* products[i].manual_data.<field> = value
SetManualData(i, field, value) ==
    /\ heap[products[i].manual_data][field] # value
    /\ call' = "setattr"
    /\ args' = [a |-> Zero, b |-> Zero, k |-> i]
    /\ ret' = Return(Zero)
    /\ heap' = [heap EXCEPT ![products[i].manual_data][field] = value]
    /\ UNCHANGED <<product, api_data, df, callerVars, tasks>>

NextOwn ==
    \/ \E nm_id \in {101} : NewProduct(nm_id)
    \/ \E row \in LoaderRows : \E manual_data \in 0..Len(heap) :
           ParseWbCsvToProduct(row, manual_data)
    \/ \E i \in 1..Len(products) : \E field \in ManualFields :
           \E value \in ManualValues[field] : SetManualData(i, field, value)

SpecOwn == Init /\ [][NextOwn]_vars

\* The Products constructed without an explicit manual_data.
Defaulted(i) == ~history[i].explicit

\* C25: two Products constructed without an explicit manual_data (directly
\* or by parse_wb_csv_to_product) hold distinct ManualInputData objects, and
\* an assignment to a field of one Product's manual_data leaves the
\* manual_data of every other such Product, and the metrics computed for it,
\* as they were.
C25_Distinct ==
    \A i, j \in 1..Len(products) :
        (i # j /\ Defaulted(i) /\ Defaulted(j)) => products[i].manual_data # products[j].manual_data

C25_Frame ==
    call' = "setattr" /\ Defaulted(args'.k)
        => \A j \in 1..Len(products) :
               (j # args'.k /\ Defaulted(j))
                   => /\ Deref(products'[j], heap') = Deref(products[j], heap)
                      /\ calculate_cogs(Deref(products'[j], heap'))
                             = calculate_cogs(Deref(products[j], heap))

C25_ManualDataOwned == []C25_Distinct /\ [][C25_Frame]_vars

\* A Product made directly and one parsed from a row, both without an
\* explicit manual_data; the cost of the second was set and the first one's
\* ManualInputData is as constructed.
C25_Witness ==
    /\ Len(products) = 2
    /\ history[1] = Constructed("Product", FALSE)
    /\ history[2] = Constructed("parse_wb_csv_to_product", FALSE)
    /\ call = "setattr"
    /\ args.k = 2
    /\ products[2].sales = 3
    /\ heap[products[2].manual_data].cost_per_unit = Dec(25, 10)
    /\ heap[products[1].manual_data] = ManualInputData

\* C26: compare_metrics and save_comparison_report leave the API aggregate
\* and the CSV aggregate as they were (every bucket, every identifier and the
\* three totals), and the report holds the two aggregates as they are: a
\* divergence is reported, never repaired.
C26_Step ==
    call' \in {"compare_metrics", "save_comparison_report"}
        => /\ api_metrics' = api_metrics
           /\ csv_metrics' = csv_metrics
           /\ (call' = "save_comparison_report" /\ ret'.exc = "none")
                  => /\ ret'.val.api_metrics = api_metrics
                     /\ ret'.val.csv_metrics = csv_metrics

SameArticle(api_key, csv_key) == strip(py_str(api_key)) = strip(py_str(csv_key))

\* C27: a product whose identifier is a key of the API aggregate and of the
\* CSV aggregate (it occurs in a valid record on each side; the sentinel -1
\* is no product) has the same key on both sides and is placed by
\* compare_metrics in common, and in neither only_api nor only_csv.
C27_SharedProductCommon ==
    (/\ call = "compare_metrics"
     /\ ret.exc = "none"
     /\ "by_article" \in DOMAIN api_metrics
     /\ "by_article" \in DOMAIN csv_metrics)
        => \A api_key \in ArticleKeys(api_metrics) : \A csv_key \in ArticleKeys(csv_metrics) :
               (SameArticle(api_key, csv_key) /\ Resolvable(api_key) /\ Resolvable(csv_key))
                   => /\ PyEq(api_key, csv_key)
                      /\ \E k \in ret.val.common : PyEq(k, api_key)
                      /\ \A k \in ret.val.only_api : ~PyEq(k, api_key)
                      /\ \A k \in ret.val.only_csv : ~PyEq(k, csv_key)

\* ---------------------------------------------------------------------
\* cli/prompts.py: the ManualInputData entered at the prompts, given to a
\* Product, and the cost of goods sold computed for it. The arguments of
\* get_manual_input_data are the values get_float_input and get_int_input
\* return once the user has typed a valid one.
\* ---------------------------------------------------------------------
get_manual_input_data_NoGiveawayCost(cost_per_unit, self_purchase_count, giveaway_count, marketing_cost) ==
    [cost_per_unit |-> cost_per_unit,
     self_purchase_count |-> self_purchase_count,
     self_purchase_cost |-> IF self_purchase_count > 0
                            THEN FloatMul(FloatOfInt(self_purchase_count), cost_per_unit)
                            ELSE Zero,
     giveaway_count |-> giveaway_count,
     giveaway_cost |-> Zero,
     marketing_cost |-> marketing_cost]

get_manual_input_data(cost_per_unit, self_purchase_count, giveaway_count, marketing_cost) ==
    [cost_per_unit |-> cost_per_unit,
     self_purchase_count |-> self_purchase_count,
     self_purchase_cost |-> IF self_purchase_count > 0
                            THEN FloatMul(FloatOfInt(self_purchase_count), cost_per_unit)
                            ELSE Zero,
     giveaway_count |-> giveaway_count,
     giveaway_cost |-> IF giveaway_count > 0
                       THEN FloatMul(FloatOfInt(giveaway_count), cost_per_unit)
                       ELSE Zero,
     marketing_cost |-> marketing_cost]

EnteredCosts == {Zero, FloatOfInt(100), Dec(1, 10), Dec(25, 10), FloatNeg(Dec(1, 10))}

EnteredCounts == {-1, 0, 1, 3}

InitPrompt ==
    /\ product \in {[Product(123) EXCEPT !.sales = s, !.returns = r] :
                       s \in {0, 10}, r \in {0, 1}}
    /\ call = "none"
    /\ args = NoArgs
    /\ ret = Return(Zero)
    /\ AggIdle
    /\ CallerIdle
    /\ IoIdle

\* manual_data = Prompts.get_manual_input_data(), given to the Product.
GetManualInputData(cost_per_unit, self_purchase_count, giveaway_count, marketing_cost) ==
    /\ call = "none"
    /\ call' = "get_manual_input_data"
    /\ product' = [product EXCEPT !.manual_data =
                      get_manual_input_data(cost_per_unit, self_purchase_count,
                                            giveaway_count, marketing_cost)]
    /\ UNCHANGED <<args, ret, api_data, df, callerVars, ioVars>>

CogsOfEntered ==
    /\ call = "get_manual_input_data"
    /\ call' = "calculate_cogs"
    /\ ret' = calculate_cogs(product)
    /\ UNCHANGED <<product, args, api_data, df, callerVars, ioVars>>

NextPrompt ==
    \/ \E cost_per_unit \in EnteredCosts : \E self_purchase_count \in {0, 1} :
           \E giveaway_count \in EnteredCounts : \E marketing_cost \in {Zero, FloatOfInt(50)} :
               GetManualInputData(cost_per_unit, self_purchase_count, giveaway_count,
                                  marketing_cost)
    \/ CogsOfEntered

SpecPrompt == InitPrompt /\ [][NextPrompt]_vars

\* C28 as stated: with giveaway_count >= 0, calculate_cogs returns
\* net_sales * cost_per_unit, whatever the giveaway_count.
C28_Original ==
    (call = "calculate_cogs" /\ product.manual_data.giveaway_count >= 0)
        => ret = Return(FloatMul(FloatOfInt(net_sales(product)),
                                 product.manual_data.cost_per_unit))

\* |cogs - N * c| <= 2^-51 * (|N - g| + g) * |c|: cogs is N * c up to the
\* rounding of two products and one sum.
CogsWithinRounding(cogs, N, g, c) ==
    ExCmp(ExScale(ExAbs(ExSub(cogs, ExMul(FloatOfInt(N), c))), 51),
          ExMul(FloatOfInt(AbsInt(N - g) + g), ExAbs(c))) <= 0

\* C28 (amended): with giveaway_count >= 0, calculate_cogs returns the float
\* (net_sales - giveaway_count) * cost_per_unit + giveaway_count *
\* cost_per_unit, which is net_sales * cost_per_unit up to the rounding of two
\* products and one sum, and exactly net_sales * cost_per_unit when
\* giveaway_count = 0 or cost_per_unit is integer-valued.
C28_CogsOfNetSales ==
    (call = "calculate_cogs" /\ product.manual_data.giveaway_count >= 0)
        => /\ ret.exc = "none"
           /\ CogsWithinRounding(ret.val, net_sales(product),
                                 product.manual_data.giveaway_count,
                                 product.manual_data.cost_per_unit)
           /\ (product.manual_data.giveaway_count = 0
                  \/ IsIntegral(product.manual_data.cost_per_unit))
                  => ret.val = FloatMul(FloatOfInt(net_sales(product)),
                                        product.manual_data.cost_per_unit)

\* 10 sales, 1 return, 3 giveaways at 0.1 per unit: 6 * 0.1 + 3 * 0.1 gives
\* 0.9000000000000001, and 9 * 0.1 is 0.9.
C28_Witness ==
    /\ call = "calculate_cogs"
    /\ net_sales(product) = 9
    /\ product.manual_data.giveaway_count = 3
    /\ product.manual_data.cost_per_unit = Dec(1, 10)
    /\ product.manual_data.giveaway_cost = FloatMul(FloatOfInt(3), Dec(1, 10))
    /\ ret.val # Dec(9, 10)
    /\ FloatCmp(ret.val, Dec(9, 10)) > 0
    /\ FloatCmp(ret.val, Dec(91, 100)) < 0

\* ---------------------------------------------------------------------
\* cli/main.py: the menu loop. call is the function main is about to call
\* ("display_menu" at the head of the loop, "return" after break, "raised"
\* when an exception left main); history holds one record per iteration:
\* the choice, the length of the list the loader returned (-1 when no
\* loader was called), the number of metrics computed and of rows exported.
\* ---------------------------------------------------------------------
MaxIterations == 3

MaxFileRows == 2

DemoLimit == 5

Choices == {"1", "2", "3", "4", "0"}

\* What a loader finds: the key in .env and the answer of get_sales, or the
\* file at the path entered and what DataLoader reads from it.
Environments ==
    {[api_key |-> k, sales_data |-> d] :
        k \in BOOLEAN, d \in {Raise("RequestException"), Return(<<>>), Return(<<EmptyDict>>)}}

Files ==
    {[exists |-> FALSE, readable |-> FALSE, data |-> <<>>],
     [exists |-> TRUE, readable |-> FALSE, data |-> <<>>]}
    \cup {[exists |-> TRUE, readable |-> TRUE, data |-> d] : d \in SeqsUpTo(LoaderRows, MaxFileRows)}

\* What the user enters at the prompts of get_manual_input_data, per row.
Entered ==
    [i \in 1..DemoLimit |->
        IF i % 2 = 1 THEN get_manual_input_data(Dec(25, 10), 1, 0, Zero)
        ELSE get_manual_input_data(FloatOfInt(100), 0, 3, FloatOfInt(50))]

Loaded(products_, heap_) == [products |-> products_, heap |-> heap_]

\* load_from_api: Config.validate raises without a key and get_sales may
\* raise, both caught; the conversion of the records is not written.
load_from_api(env, heap_) ==
    IF ~env.api_key THEN Loaded(<<>>, heap_)
    ELSE IF env.sales_data.exc # "none" THEN Loaded(<<>>, heap_)
    ELSE IF env.sales_data.val = <<>> THEN Loaded(<<>>, heap_)
    ELSE Loaded(<<>>, heap_)

\* The loop over data[:5]: row i is parsed with the ManualInputData entered
\* for it, a new object; an exception in any row is caught and the list so
\* far, with its objects, is dropped.
Returned(r, heap_, objects) ==
    IF r.exc # "none" THEN Loaded(<<>>, heap_) ELSE Loaded(r.val, heap_ \o objects)

LoadRows(data, entered, heap_) ==
    Returned(CollectOutcomes([i \in 1..Min2(Len(data), DemoLimit) |->
                                 parse_wb_csv_to_product(data[i], Len(heap_) + i, heap_)]),
             heap_, [i \in 1..Min2(Len(data), DemoLimit) |-> entered[i]])

load_from_csv(file, entered, heap_) ==
    IF ~file.exists THEN Loaded(<<>>, heap_)
    ELSE IF ~file.readable THEN Loaded(<<>>, heap_)
    ELSE IF file.data = <<>> THEN Loaded(<<>>, heap_)
    ELSE LoadRows(file.data, entered, heap_)

\* A load_from_json that builds a Product of each record read.
load_from_json_Parsed(file, heap_) ==
    IF ~file.exists THEN Loaded(<<>>, heap_)
    ELSE IF ~file.readable THEN Loaded(<<>>, heap_)
    ELSE LoadRows(file.data, [i \in 1..DemoLimit |-> ManualInputData], heap_)

load_from_json(file, heap_) ==
    IF ~file.exists THEN Loaded(<<>>, heap_)
    ELSE IF ~file.readable THEN Loaded(<<>>, heap_)
    ELSE Loaded(<<>>, heap_)

\* storage/export.py: export_to_json, the dicts json.dump is given.
export_to_json(metrics) == [i \in 1..Len(metrics) |-> to_dict(metrics[i])]

NothingExported == [json |-> <<>>, csv |-> export_to_csv(<<>>).val]

\* export_results(metrics): both files, then the summary; writable is
\* whether the output directory can be made and written.
Exported(json, csv) ==
    IF csv.exc # "none" THEN csv ELSE Return([json |-> json, csv |-> csv.val])

export_results(metrics, writable) ==
    IF metrics = <<>> THEN Return(NothingExported)
    ELSE IF ~writable THEN Raise("OSError")
    ELSE Exported(export_to_json(metrics), export_to_csv(metrics))

Iteration(choice) == [choice |-> choice, loaded |-> -1, computed |-> 0, exported |-> 0]

Noted(field, n) == [history EXCEPT ![Len(history)][field] = n]

\* choice = Prompts.display_menu(); products = []; the dispatch on choice.
\* The objects of the list dropped here are no longer reachable.
DisplayMenu(choice) ==
    /\ call \in {"none", "display_menu"}
    /\ Len(history) < MaxIterations
    /\ args' = [choice |-> choice]
    /\ ret' = Return(choice)
    /\ products' = <<>>
    /\ heap' = <<>>
    /\ history' = Append(history, Iteration(choice))
    /\ call' = CASE choice = "1" -> "load_from_api"
                 [] choice = "2" -> "load_from_csv"
                 [] choice = "3" -> "load_from_json"
                 [] choice = "4" -> "return"
                 [] OTHER -> "display_menu"
    /\ UNCHANGED <<product, api_data, df, api_metrics, csv_metrics, tasks>>

\* products = load_from_...(); if products: ...
Assigned(loaded) ==
    /\ products' = loaded.products
    /\ heap' = loaded.heap
    /\ ret' = Return(loaded.products)
    /\ history' = Noted("loaded", Len(loaded.products))
    /\ call' = IF loaded.products # <<>> THEN "process_products" ELSE "display_menu"
    /\ UNCHANGED <<product, args, api_data, df, api_metrics, csv_metrics, tasks>>

LoadFromApi(env) ==
    /\ call = "load_from_api"
    /\ Assigned(load_from_api(env, heap))

LoadFromCsv(file) ==
    /\ call = "load_from_csv"
    /\ Assigned(load_from_csv(file, Entered, heap))

LoadFromJson(file) ==
    /\ call = "load_from_json"
    /\ Assigned(load_from_json(file, heap))

\* metrics = process_products(products)
MainProcessProducts ==
    /\ call = "process_products"
    /\ ret' = process_products([i \in 1..Len(products) |-> Deref(products[i], heap)])
    /\ call' = IF ret'.exc # "none" THEN "raised" ELSE "export_results"
    /\ history' = IF ret'.exc # "none" THEN history ELSE Noted("computed", Len(ret'.val))
    /\ UNCHANGED <<product, args, api_data, df, products, api_metrics, csv_metrics, ioVars>>

\* export_results(metrics); input(...)
ExportResults(writable) ==
    /\ call = "export_results"
    /\ ret' = export_results(ret.val, writable)
    /\ call' = IF ret'.exc # "none" THEN "raised" ELSE "display_menu"
    /\ history' = IF ret'.exc # "none" THEN history
                  ELSE Noted("exported", Len(ret'.val.csv.rows))
    /\ UNCHANGED <<product, args, api_data, df, products, api_metrics, csv_metrics, ioVars>>

NextMain ==
    \/ \E choice \in Choices : DisplayMenu(choice)
    \/ \E env \in Environments : LoadFromApi(env)
    \/ \E file \in Files : LoadFromCsv(file)
    \/ \E file \in Files : LoadFromJson(file)
    \/ MainProcessProducts
    \/ \E writable \in BOOLEAN : ExportResults(writable)

SpecMain == Init /\ [][NextMain]_vars

MenuChoices == {"1", "2", "3", "4"}

\* What the log says of iteration k.
C29_Iteration(k) ==
    LET it == history[k]
    IN  /\ (it.computed > 0 \/ it.exported > 0) =>
            (it.loaded > 0 /\ it.computed = it.loaded /\ it.exported \in {0, it.loaded})
        /\ it.choice \notin MenuChoices => (it.loaded = -1 /\ it.computed = 0 /\ it.exported = 0)
        /\ it.choice \in {"1", "3"} => (it.loaded \in {-1, 0} /\ it.computed = 0 /\ it.exported = 0)
        /\ it.choice = "4" => (it.loaded = -1 /\ it.computed = 0 /\ it.exported = 0
                               /\ k = Len(history) /\ call = "return")

C29_Log ==
    /\ \A k \in 1..Len(history) : C29_Iteration(k)
    /\ call \in {"process_products", "export_results"} =>
        (products # <<>> /\ Len(products) = history[Len(history)].loaded)

C29_Step ==
    /\ Len(history') > Len(history) => products' = <<>>
    /\ (Len(history') > Len(history) /\ history'[Len(history')].choice \notin MenuChoices) =>
        call' = "display_menu"
    /\ call = "return" => UNCHANGED vars

\* C29: in the menu loop, over any sequence of choices, metrics are computed
\* and exported in an iteration only for the non-empty list the loader of
\* that iteration returned (products start empty in every iteration); a
\* choice outside 1-4 loads, computes and exports nothing and returns to the
\* menu; choices 1 and 3 never export; choice 4 ends the loop with no export.
C29_MenuLoop == []C29_Log /\ [][C29_Step]_vars

C29_Witness ==
    /\ Len(history) = 3
    /\ history[1] = [choice |-> "2", loaded |-> 2, computed |-> 2, exported |-> 2]
    /\ history[2] = [choice |-> "1", loaded |-> 0, computed |-> 0, exported |-> 0]
    /\ history[3].choice = "4"
    /\ call = "return"
    /\ products = <<>>
====
